---- MODULE Spec2Model ----
(***************************************************************************)
(* Kelly OS payment-settlement core: the M-Pesa webhook handler, the       *)
(* payment processor (processPayment and its helpers), the double-entry    *)
(* accounting engine and invoice creation, over a PostgreSQL store driven  *)
(* through Prisma.  Amounts are integers counted in cents (0.01 KSh), so   *)
(* the 0.01 rounding tolerance of the code is 1.                           *)
(*                                                                         *)
(* Store semantics: a write made through the interactive-transaction       *)
(* client `tx` is buffered in the writer's transaction and becomes visible *)
(* to others only at commit (READ COMMITTED); a write made through the     *)
(* global `prisma` client is committed at once, also when it is issued     *)
(* from inside a $transaction callback.  Row locks make a writer wait for  *)
(* the transaction that holds an uncommitted write on the same row.        *)
(***************************************************************************)
EXTENDS Integers, Sequences, FiniteSets, TLC

\* ------------------------------------------------------------------ bounds
MaxRequests == 3
MaxSerialRequests == 4
MaxResolveRequests == 3
MaxLimitRequests == 4
MaxPostCalls == 2
MaxReverseRequests == 3
MaxCancelRequests == 3
MaxCancelSerialRequests == 4
MaxLedgerRequests == 2
MaxHandlerRequests == 2
MaxPosRequests == 3
MaxSales == 2
MaxBalanceTransactions == 2
MaxVerifyRows == 8
MaxSuccessRequests == 4
MaxStatusRequests == 3

\* ------------------------------------------------------- program constants
Eps == 1
MaxTransactionAmount == 25000000
DailyLimit == 50000000
Today == 1

\* --------------------------------------------------------- input universes
Procs == {1, 2}
Customers == {"c1"}
Receipts == <<"R1", "R2", "R3">>
PayAmounts == {3, 5}
InvoiceAmounts == {4, 6}
TransactionDays == {1}
\* generateInvoiceId: the numbered code of the n-th invoice; the row's primary key.
InvoiceCode(n) == "INV-" \o ToString(n)
InvoicePk(i) == "i" \o ToString(i)
\* POSSale.posId, as generatePOSId numbers the sales of a day, and POSSale.id.
PosCode(n) == "POS-" \o ToString(n)
SalePk(k) == "s" \o ToString(k)
AccountRefs == {"CUST-c1", "INV-1", "NOPE"}

CustomerCode(c) == IF c = "c1" THEN "CUST-c1" ELSE "CUST-c2"

VARIABLES
  customers,      \* Customer.balance per customer
  invoices,       \* committed Invoice rows, by id (ids ascend with createdAt)
  payments,       \* committed Payment rows
  allocations,    \* committed PaymentInvoice rows
  ledger,         \* AccountingLedger rows (append-only set)
  webhookLogs,    \* WebhookLog rows, in insertion order
  posSales,       \* POSSale rows, in insertion order
  nextInvoiceId,  \* last Invoice id handed out
  responses,      \* what the webhook handler has answered, one per invocation
  proc            \* per request slot: position and locals of the running call

vars == <<customers, invoices, payments, allocations, ledger, webhookLogs,
          posSales, nextInvoiceId, responses, proc>>

db == <<customers, invoices, payments, allocations, ledger, webhookLogs, posSales>>

\* ------------------------------------------------------------------ helpers
Min(a, b) == IF a <= b THEN a ELSE b

RECURSIVE SumSeq(_)
SumSeq(s) == IF s = <<>> THEN 0 ELSE Head(s) + SumSeq(Tail(s))

RECURSIVE SumAmount(_)
SumAmount(S) ==
  IF S = {} THEN 0
  ELSE LET x == CHOOSE y \in S : TRUE IN x.amount + SumAmount(S \ {x})

Abs(x) == IF x < 0 THEN -x ELSE x

NoPayment == [id |-> 0, mpesaReceiptNumber |-> "", customerId |-> "",
              amount |-> 0, paymentType |-> "", status |-> "NONE",
              transactionDate |-> 0]

IdleProc ==
  [pc |-> "idle", op |-> "none",
   mpesaReceiptNumber |-> "", accountReference |-> "", amount |-> 0,
   transactionDate |-> 0,
   existingLog |-> FALSE, logId |-> 0,
   customerId |-> "", customerBalance |-> 0, targetInvoiceId |-> 0,
   paymentType |-> "",
   payment |-> NoPayment, snapshot |-> <<>>, remainingAmount |-> 0,
   allocation |-> <<>>, txInvoices |-> <<>>, txCustomer |-> FALSE,
   newInvoice |-> 0, newBalance |-> 0, resultId |-> 0, error |-> "",
   entries |-> <<>>, originalTransactionRef |-> <<>>,
   accountCode |-> "", balance |-> 0, isValid |-> TRUE, errors |-> {},
   parsedData |-> FALSE, posId |-> 0, sale |-> 0, txSales |-> {},
   asOfDate |-> 0]

\* The pcs at which a settlement is inside its prisma.$transaction callback.
TxPcs == {"txPaymentCreate", "txFindInvoices", "txAllocate", "txCustomerUpdate",
          "postLedger", "txComplete", "txUpdatePOS", "txCommit"}

\* The pcs at which createInvoice is inside its prisma.$transaction callback.
CiTxPcs == {"ciTx", "ciPostLedger", "ciCommit"}

\* Row locks: uncommitted writes buffered in the other requests' transactions.
InvoiceLocked(p, i) ==
  \E q \in Procs \ {p} : \E k \in 1..Len(proc[q].txInvoices) :
                            proc[q].txInvoices[k].id = i

CustomerLocked(p, c) ==
  \E q \in Procs \ {p} : proc[q].txCustomer /\ proc[q].customerId = c

ReceiptLocked(p, r) ==
  \E q \in Procs \ {p} : proc[q].payment.id # 0
                          /\ proc[q].payment.mpesaReceiptNumber = r

\* ------------------------------------------------------- accounting engine
ACCOUNTS ==
  [MPESA_CASH |-> [code |-> "1010", type |-> "ASSET"],
   ACCOUNTS_RECEIVABLE |-> [code |-> "1200", type |-> "ASSET"],
   SALES_REVENUE |-> [code |-> "4000", type |-> "REVENUE"],
   COST_OF_GOODS_SOLD |-> [code |-> "5000", type |-> "EXPENSE"]]

Entry(account, entryType, amount) ==
  [accountCode |-> account.code, accountType |-> account.type,
   entryType |-> entryType, amount |-> amount]

TotalOf(entries, entryType) ==
  SumSeq([k \in 1..Len(SelectSeq(entries, LAMBDA e : e.entryType = entryType)) |->
            SelectSeq(entries, LAMBDA e : e.entryType = entryType)[k].amount])

\* Mutant: the balance check lets everything through.
BalancedAlways(entries) == TRUE

\* postTransaction, step 1: the balance check that guards every posting.
Balanced(entries) ==
  Abs(TotalOf(entries, "DEBIT") - TotalOf(entries, "CREDIT")) <= Eps

\* postTransaction, step 2: one ledger row per entry, all under transactionRef.
LedgerRows(entries, transactionRef, paymentId, invoiceId, customerId) ==
  {[transactionRef |-> transactionRef, line |-> k,
    accountCode |-> entries[k].accountCode,
    accountType |-> entries[k].accountType,
    entryType |-> entries[k].entryType,
    amount |-> entries[k].amount,
    paymentId |-> paymentId, invoiceId |-> invoiceId, customerId |-> customerId] :
     k \in 1..Len(entries)}

\* The ledger after postTransaction(entries): unchanged when it throws.
\* Mutant: only the debit rows are written.
PostTransactionDebitsOnly(led, entries, transactionRef, paymentId, invoiceId, customerId) ==
  led \cup {e \in LedgerRows(entries, transactionRef, paymentId, invoiceId,
                               customerId) : e.entryType = "DEBIT"}

\* Mutant: the posting replaces what the ledger held.
PostTransactionReplacing(led, entries, transactionRef, paymentId, invoiceId, customerId) ==
  LedgerRows(entries, transactionRef, paymentId, invoiceId, customerId)

PostTransaction(led, entries, transactionRef, paymentId, invoiceId, customerId) ==
  IF Balanced(entries)
  THEN led \cup LedgerRows(entries, transactionRef, paymentId, invoiceId, customerId)
  ELSE led

\* generateTransactionRef: a fresh reference per call; the references of a run are
\* told apart by the prefix and the row the posting is made for.
GenerateTransactionRef(prefix, n) == <<prefix, n>>

\* Mutant: the credit goes to Sales Revenue.
PaymentReceivedEntriesToRevenue(amount) ==
  <<Entry(ACCOUNTS.MPESA_CASH, "DEBIT", amount),
    Entry(ACCOUNTS.SALES_REVENUE, "CREDIT", amount)>>

\* postPaymentReceived: DR M-Pesa Cash, CR Accounts Receivable, both the amount.
PaymentReceivedEntries(amount) ==
  <<Entry(ACCOUNTS.MPESA_CASH, "DEBIT", amount),
    Entry(ACCOUNTS.ACCOUNTS_RECEIVABLE, "CREDIT", amount)>>

InvoiceCreatedEntries(amount) ==
  <<Entry(ACCOUNTS.ACCOUNTS_RECEIVABLE, "DEBIT", amount),
    Entry(ACCOUNTS.SALES_REVENUE, "CREDIT", amount)>>

\* Totals of a set of ledger rows, per side.
RowTotal(rows, entryType) == SumAmount({e \in rows : e.entryType = entryType})

\* getAccountBalance without asOfDate.
GetAccountBalance(led, accountCode) ==
  LET entries == {e \in led : e.accountCode = accountCode}
      totalDebits == RowTotal(entries, "DEBIT")
      totalCredits == RowTotal(entries, "CREDIT")
  IN IF entries = {} THEN 0
     ELSE IF (CHOOSE e \in entries : TRUE).accountType \in {"ASSET", "EXPENSE"}
          THEN totalDebits - totalCredits ELSE totalCredits - totalDebits

\* ------------------------------------------------------------ store reads
\* Mutant: newest first.
RECURSIVE SortIdsDescending(_)
SortIdsDescending(S) ==
  IF S = {} THEN <<>>
  ELSE LET m == CHOOSE x \in S : \A y \in S : x >= y
       IN <<m>> \o SortIdsDescending(S \ {m})

\* orderBy createdAt ascending: rows are numbered in the order of their creation.
RECURSIVE SortIds(_)
SortIds(S) ==
  IF S = {} THEN <<>>
  ELSE LET m == CHOOSE x \in S : \A y \in S : x <= y
       IN <<m>> \o SortIds(S \ {m})

\* Mutant: the target invoice does not restrict the rows fetched.
FindOpenInvoicesOfCustomer(customerId, targetInvoiceId) ==
  LET ids == {i \in DOMAIN invoices :
                /\ invoices[i].customerId = customerId
                /\ invoices[i].status \in {"UNPAID", "PARTIALLY_PAID"}}
      order == SortIds(ids)
  IN [k \in 1..Len(order) |-> invoices[order[k]]]

\* Mutant: the status does not restrict the rows fetched.
FindInvoicesOfAnyStatus(customerId, targetInvoiceId) ==
  LET ids == {i \in DOMAIN invoices :
                /\ invoices[i].customerId = customerId
                /\ (targetInvoiceId # 0 => i = targetInvoiceId)}
      order == SortIds(ids)
  IN [k \in 1..Len(order) |-> invoices[order[k]]]

\* tx.invoice.findMany of allocatePayment: the customer's open invoices, restricted
\* to the target invoice when there is one, ordered by createdAt ascending.
FindOpenInvoices(customerId, targetInvoiceId) ==
  LET ids == {i \in DOMAIN invoices :
                /\ invoices[i].customerId = customerId
                /\ invoices[i].status \in {"UNPAID", "PARTIALLY_PAID"}
                /\ (targetInvoiceId # 0 => i = targetInvoiceId)}
      order == SortIds(ids)
  IN [k \in 1..Len(order) |-> invoices[order[k]]]

\* identifyPaymentTarget: the invoices, then the customers, matching the reference.
MatchingInvoices(accountReference) ==
  {i \in DOMAIN invoices :
     invoices[i].invoiceId = accountReference \/ InvoicePk(i) = accountReference}

MatchingCustomers(accountReference) ==
  {c \in Customers : CustomerCode(c) = accountReference \/ c = accountReference}

\* validatePayment: "" when the payment is within both ceilings, else the error.
ValidatePayment(customerId, amount) ==
  LET todays == {x \in payments : /\ x.customerId = customerId
                                   /\ x.transactionDate >= Today
                                   /\ x.status = "COMPLETED"}
      dailyTotal == SumAmount(todays) + amount
  IN IF amount > MaxTransactionAmount THEN "Payment amount exceeds maximum"
     ELSE IF dailyTotal > DailyLimit THEN "Daily limit exceeded"
     ELSE ""

\* Mutant: the whole remaining amount goes to the invoice, whatever its balance.
AmountToApplyUncapped(remainingAmount, invoice) == remainingAmount

\* Mutant: the invoice is filled whatever is left of the payment.
AmountToApplyWholeBalance(remainingAmount, invoice) == invoice.balance

\* One iteration of the allocation loop on an invoice row as fetched.
AmountToApply(remainingAmount, invoice) == Min(remainingAmount, invoice.balance)

\* Mutant: PAID only when nothing at all is left.
NewStatusExactZero(invoice, newAmountPaid, newBalance) ==
  IF newBalance <= 0 THEN "PAID"
  ELSE IF newAmountPaid > 0 THEN "PARTIALLY_PAID"
  ELSE invoice.status

NewStatus(invoice, newAmountPaid, newBalance) ==
  IF newBalance <= Eps THEN "PAID"
  ELSE IF newAmountPaid > 0 THEN "PARTIALLY_PAID"
  ELSE invoice.status

AllocateOne(remainingAmount, invoice) ==
  LET amountToApply == AmountToApply(remainingAmount, invoice)
      newAmountPaid == invoice.amountPaid + amountToApply
      newBalance == invoice.amount - newAmountPaid
  IN [id |-> invoice.id, amountApplied |-> amountToApply,
      amountPaid |-> newAmountPaid, balance |-> newBalance,
      status |-> NewStatus(invoice, newAmountPaid, newBalance)]

\* ----------------------------------------------------------------- Init
Init ==
  /\ customers = [c \in Customers |-> 0]
  /\ invoices = <<>>
  /\ payments = {}
  /\ allocations = {}
  /\ ledger = {}
  /\ webhookLogs = <<>>
  /\ posSales = <<>>
  /\ nextInvoiceId = 0
  /\ responses = <<>>
  /\ proc = [p \in Procs |-> IdleProc]

\* Request slots are interchangeable: a new request takes the lowest free one.
FreeSlot(p) == proc[p].pc = "idle" /\ \A q \in Procs : q < p => proc[q].pc # "idle"

\* Receipt numbers are interchangeable: the k-th distinct receipt to arrive is
\* Receipts[k].
SeenReceipts ==
  {webhookLogs[k].mpesaReceiptNumber : k \in 1..Len(webhookLogs)} \cup
  {proc[q].mpesaReceiptNumber : q \in {x \in Procs : proc[x].op = "webhook"}}

NextReceipts ==
  {Receipts[k] : k \in {j \in 1..Len(Receipts) :
                           \A i \in 1..(j - 1) : Receipts[i] \in SeenReceipts}}

ReversalRefs == {e.transactionRef : e \in {x \in ledger : x.transactionRef[1] = "REV"}}

\* Requests received so far: every callback has written its log row or is about
\* to, every createInvoice has taken its invoice id or is about to, every reversal
\* has posted, every cancelInvoice has posted its reversal or is about to.
Requests ==
  Len(webhookLogs) + nextInvoiceId + Cardinality(ReversalRefs)
  + Cardinality({q \in Procs : proc[q].pc \in {"createLog", "ciTx", "cxInvoice",
                                                "cxCustomer", "cxReverse"}})

\* A request ends: its slot is freed, and the requests still running move down to
\* the lowest slots (a slot carries no identity).
Release(p) ==
  proc' = [q \in Procs |->
             IF q < p THEN proc[q]
             ELSE IF q + 1 \in Procs THEN proc[q + 1] ELSE IdleProc]

Goto(p, pc) == proc' = [proc EXCEPT ![p].pc = pc]

\* ------------------------------------------- webhook handler: POST (route.ts)
\* Steps 1-5: parse the callback and look the receipt up in the webhook log.
\* Mutant: the lookup never finds a row.
FindNoLog(receipt) == FALSE

\* Step 5: prisma.webhookLog.findFirst on the receipt.
FindExistingLog(receipt) ==
  \E k \in 1..Len(webhookLogs) : webhookLogs[k].mpesaReceiptNumber = receipt

Receive(p, receipt, accountReference, amount, day) ==
  /\ FreeSlot(p)
  /\ receipt \in NextReceipts
  /\ proc' = [proc EXCEPT ![p] =
        [IdleProc EXCEPT !.pc = "createLog", !.op = "webhook",
           !.mpesaReceiptNumber = receipt, !.accountReference = accountReference,
           !.amount = amount, !.transactionDate = day,
           !.existingLog = FindExistingLog(receipt)]]
  /\ UNCHANGED <<db, nextInvoiceId, responses>>

WebhookLog(receipt, isDuplicate, processingError) ==
  [mpesaReceiptNumber |-> receipt, processed |-> FALSE, isDuplicate |-> isDuplicate,
   processingError |-> processingError, paymentId |-> 0]

\* Mutant: the handler answers with a server error.
ServerError == [status |-> 500, ResultCode |-> 1, ResultDesc |-> "Rejected"]

\* The answers of the handler: every return statement of POST is
\* NextResponse.json({ResultCode: 0, ...}, {status: 200}).
Accepted == [status |-> 200, ResultCode |-> 0, ResultDesc |-> "Accepted"]

AcceptedDuplicate ==
  [status |-> 200, ResultCode |-> 0, ResultDesc |-> "Accepted (duplicate)"]

\* The handler returns: the sender gets the response and the slot is free.
Respond(p, response) ==
  /\ Release(p)
  /\ responses' = Append(responses, response)

\* Steps 5-6: log a duplicate and acknowledge, or log the callback as new.
CreateLog(p) ==
  /\ proc[p].pc = "createLog"
  /\ IF proc[p].existingLog
     THEN /\ webhookLogs' = Append(webhookLogs,
                 WebhookLog(proc[p].mpesaReceiptNumber, TRUE,
                            "Duplicate webhook - already processed"))
          /\ Respond(p, AcceptedDuplicate)
     ELSE /\ webhookLogs' = Append(webhookLogs,
                 WebhookLog(proc[p].mpesaReceiptNumber, FALSE, ""))
          /\ proc' = [proc EXCEPT ![p].pc = "findPayment",
                                  ![p].logId = Len(webhookLogs) + 1]
          /\ UNCHANGED responses
  /\ UNCHANGED <<customers, invoices, payments, allocations, ledger, posSales,
                 nextInvoiceId>>

\* Step 8: the log row of this callback is marked processed with the payment id.
LogSuccess(p) ==
  /\ proc[p].pc = "logSuccess"
  /\ webhookLogs' = [webhookLogs EXCEPT ![proc[p].logId].processed = TRUE,
                                         ![proc[p].logId].paymentId = proc[p].resultId]
  /\ Respond(p, Accepted)
  /\ UNCHANGED <<customers, invoices, payments, allocations, ledger, posSales,
                 nextInvoiceId>>

\* catch (processingError): the log row keeps processed=false and gets the message.
LogError(p) ==
  /\ proc[p].pc = "logError"
  /\ webhookLogs' = [webhookLogs EXCEPT ![proc[p].logId].processed = FALSE,
                                         ![proc[p].logId].processingError = proc[p].error]
  /\ Respond(p, Accepted)
  /\ UNCHANGED <<customers, invoices, payments, allocations, ledger, posSales,
                 nextInvoiceId>>

\* Steps 1-5 throw: JSON.parse or the schema rejects the payload (parsedData is
\* still null), or the findFirst on the webhook log fails (parsedData is set).
\* Either way control is in the outer catch.
ReceiveInvalid(p, receipt, parsed) ==
  /\ FreeSlot(p)
  /\ parsed => receipt \in NextReceipts
  /\ proc' = [proc EXCEPT ![p] =
        [IdleProc EXCEPT !.pc = "outerCatch", !.op = "webhook",
           !.mpesaReceiptNumber = IF parsed THEN receipt ELSE "",
           !.parsedData = parsed,
           !.error = IF parsed THEN "Storage failure" ELSE "Invalid payload"]]
  /\ UNCHANGED <<db, nextInvoiceId, responses>>

\* A write to the webhook log throws.  The creates of steps 5-6 are in the outer
\* try: the outer catch takes over.  The update of step 8 is in the inner try:
\* catch (processingError) takes over.  The update in catch (processingError) is
\* inside the outer try as well: the outer catch takes over.
LogWriteFail(p) ==
  /\ proc[p].pc \in {"createLog", "logSuccess", "logError"}
  /\ proc' = [proc EXCEPT ![p] =
        IF proc[p].pc = "logSuccess"
        THEN [IdleProc EXCEPT !.pc = "logError", !.op = "webhook",
                !.mpesaReceiptNumber = proc[p].mpesaReceiptNumber,
                !.logId = proc[p].logId, !.error = "Storage failure"]
        ELSE [IdleProc EXCEPT !.pc = "outerCatch", !.op = "webhook",
                !.mpesaReceiptNumber = proc[p].mpesaReceiptNumber,
                !.parsedData = TRUE, !.error = "Storage failure"]]
  /\ UNCHANGED <<db, nextInvoiceId, responses>>

\* The outer catch: when the payload had been parsed, a log row with the error is
\* created; the answer is the acknowledgment.
LogInvalid(p) ==
  /\ proc[p].pc = "outerCatch"
  /\ webhookLogs' =
       IF proc[p].parsedData
       THEN Append(webhookLogs,
                   WebhookLog(proc[p].mpesaReceiptNumber, FALSE,
                              "Validation error: " \o proc[p].error))
       ELSE webhookLogs
  /\ Respond(p, Accepted)
  /\ UNCHANGED <<customers, invoices, payments, allocations, ledger, posSales,
                 nextInvoiceId>>

\* The create in the outer catch throws: catch (logError) swallows the error.
LogInvalidFail(p) ==
  /\ proc[p].pc = "outerCatch"
  /\ proc[p].parsedData
  /\ Respond(p, Accepted)
  /\ UNCHANGED <<db, nextInvoiceId>>

\* Mutant: the error thrown carries no message.
ThrownWithoutMessage(p, message) ==
  [IdleProc EXCEPT !.pc = "logError", !.op = "webhook",
     !.mpesaReceiptNumber = proc[p].mpesaReceiptNumber,
     !.logId = proc[p].logId, !.error = ""]

\* What processPayment leaves behind when it throws: its locals are gone.
Thrown(p, message) ==
  [IdleProc EXCEPT !.pc = "logError", !.op = "webhook",
     !.mpesaReceiptNumber = proc[p].mpesaReceiptNumber,
     !.logId = proc[p].logId, !.error = message]

\* What processPayment leaves behind when it returns a PaymentResult.
Returned(p, id) ==
  [IdleProc EXCEPT !.pc = "logSuccess", !.op = "webhook",
     !.mpesaReceiptNumber = proc[p].mpesaReceiptNumber,
     !.logId = proc[p].logId, !.resultId = id]

\* ------------------------------------------------ processPayment, steps 1-3
\* Step 1: prisma.payment.findUnique on the receipt; an existing row is returned.
FindPayment(p) ==
  /\ proc[p].pc = "findPayment"
  /\ IF \E x \in payments : x.mpesaReceiptNumber = proc[p].mpesaReceiptNumber
     THEN \E x \in payments :
            /\ x.mpesaReceiptNumber = proc[p].mpesaReceiptNumber
            /\ proc' = [proc EXCEPT ![p] = Returned(p, x.id)]
     ELSE Goto(p, "identify")
  /\ UNCHANGED <<db, nextInvoiceId, responses>>

\* Mutant: the customers are searched before the invoices.
IdentifyCustomerFirst(p) ==
  /\ proc[p].pc = "identify"
  /\ LET ref == proc[p].accountReference IN
     IF MatchingCustomers(ref) # {}
     THEN \E c \in MatchingCustomers(ref) :
            proc' = [proc EXCEPT ![p].pc = "validate",
                                 ![p].customerId = c,
                                 ![p].customerBalance = customers[c],
                                 ![p].targetInvoiceId = 0,
                                 ![p].paymentType = "ACCOUNT"]
     ELSE IF MatchingInvoices(ref) # {}
     THEN \E i \in MatchingInvoices(ref) :
            proc' = [proc EXCEPT ![p].pc = "validate",
                                 ![p].customerId = invoices[i].customerId,
                                 ![p].customerBalance = customers[invoices[i].customerId],
                                 ![p].targetInvoiceId = i,
                                 ![p].paymentType = "INVOICE"]
     ELSE proc' = [proc EXCEPT ![p] = Thrown(p, "Invalid account reference")]
  /\ UNCHANGED <<db, nextInvoiceId, responses>>

\* Step 2: identifyPaymentTarget, invoice first, then customer, else it throws.
IdentifyPaymentTarget(p) ==
  /\ proc[p].pc = "identify"
  /\ LET ref == proc[p].accountReference IN
     IF MatchingInvoices(ref) # {}
     THEN \E i \in MatchingInvoices(ref) :
            proc' = [proc EXCEPT ![p].pc = "validate",
                                 ![p].customerId = invoices[i].customerId,
                                 ![p].customerBalance = customers[invoices[i].customerId],
                                 ![p].targetInvoiceId = i,
                                 ![p].paymentType = "INVOICE"]
     ELSE IF MatchingCustomers(ref) # {}
     THEN \E c \in MatchingCustomers(ref) :
            proc' = [proc EXCEPT ![p].pc = "validate",
                                 ![p].customerId = c,
                                 ![p].customerBalance = customers[c],
                                 ![p].targetInvoiceId = 0,
                                 ![p].paymentType = "ACCOUNT"]
     ELSE proc' = [proc EXCEPT ![p] = Thrown(p, "Invalid account reference")]
  /\ UNCHANGED <<db, nextInvoiceId, responses>>

\* Step 3: validatePayment against the committed COMPLETED payments of today.
Validate(p) ==
  /\ proc[p].pc = "validate"
  /\ LET message == ValidatePayment(proc[p].customerId, proc[p].amount) IN
     IF message = "" THEN Goto(p, "txPaymentCreate")
     ELSE proc' = [proc EXCEPT ![p] = Thrown(p, message)]
  /\ UNCHANGED <<db, nextInvoiceId, responses>>

\* --------------------------- processPayment, step 4: the prisma.$transaction
\* 4a: tx.payment.create.  mpesaReceiptNumber is a unique field of Payment (it is
\* the key of findUnique in step 1): the insert waits for an uncommitted row with
\* the same receipt and throws when a committed one exists.
\* Payment ids are fresh per row: the row a callback creates is numbered after the
\* webhook log row of that callback.
NewPaymentId(p) == proc[p].logId

\* Mutant: Payment.mpesaReceiptNumber carries no unique constraint.
UniqueReceiptUnenforced(receipt) == TRUE

UniqueReceipt(receipt) == \A x \in payments : x.mpesaReceiptNumber # receipt

TxPaymentCreate(p) ==
  /\ proc[p].pc = "txPaymentCreate"
  /\ ~ReceiptLocked(p, proc[p].mpesaReceiptNumber)
  /\ IF UniqueReceipt(proc[p].mpesaReceiptNumber)
     THEN proc' = [proc EXCEPT ![p].pc = "txFindInvoices",
                 ![p].payment = [id |-> NewPaymentId(p),
                                 mpesaReceiptNumber |-> proc[p].mpesaReceiptNumber,
                                 customerId |-> proc[p].customerId,
                                 amount |-> proc[p].amount,
                                 paymentType |-> proc[p].paymentType,
                                 status |-> "PENDING",
                                 transactionDate |-> proc[p].transactionDate]]
     ELSE proc' = [proc EXCEPT ![p] =
                 Thrown(p, "Unique constraint failed on mpesaReceiptNumber")]
  /\ UNCHANGED <<db, nextInvoiceId, responses>>

\* 4b, allocatePayment: the findMany that fixes the invoices to walk.
TxFindInvoices(p) ==
  /\ proc[p].pc = "txFindInvoices"
  /\ LET found == FindOpenInvoices(proc[p].customerId, proc[p].targetInvoiceId) IN
     proc' = [proc EXCEPT ![p].snapshot = found,
                          ![p].remainingAmount = proc[p].amount,
                          ![p].pc = IF found = <<>> \/ proc[p].amount <= 0
                                    THEN "txCustomerUpdate" ELSE "txAllocate"]
  /\ UNCHANGED <<db, nextInvoiceId, responses>>

\* 4b, allocatePayment: one iteration of the loop (paymentInvoice.create and
\* invoice.update, both through tx).
TxAllocate(p) ==
  /\ proc[p].pc = "txAllocate"
  /\ LET invoice == Head(proc[p].snapshot)
         a == AllocateOne(proc[p].remainingAmount, invoice)
         rest == Tail(proc[p].snapshot)
         remaining == proc[p].remainingAmount - a.amountApplied
     IN /\ ~InvoiceLocked(p, invoice.id)
        /\ proc' = [proc EXCEPT
              ![p].txInvoices = Append(@, [id |-> a.id, amountPaid |-> a.amountPaid,
                                           balance |-> a.balance, status |-> a.status]),
              ![p].allocation = Append(@, [invoiceId |-> a.id,
                                           amountApplied |-> a.amountApplied]),
              ![p].remainingAmount = remaining,
              ![p].snapshot = rest,
              ![p].pc = IF rest = <<>> \/ remaining <= 0
                        THEN "txCustomerUpdate" ELSE "txAllocate"]
  /\ UNCHANGED <<db, nextInvoiceId, responses>>

\* 4c: tx.customer.update with the balance read in step 2 minus the amount.
TxCustomerUpdate(p) ==
  /\ proc[p].pc = "txCustomerUpdate"
  /\ ~CustomerLocked(p, proc[p].customerId)
  /\ proc' = [proc EXCEPT ![p].newBalance = proc[p].customerBalance - proc[p].amount,
                          ![p].txCustomer = TRUE,
                          ![p].pc = "postLedger"]
  /\ UNCHANGED <<db, nextInvoiceId, responses>>

\* 4d: AccountingEngine.postPaymentReceived, called without tx: postTransaction
\* writes through the global client and its rows are committed at once.
PostPaymentReceived(p) ==
  /\ proc[p].pc = "postLedger"
  /\ LET entries == PaymentReceivedEntries(proc[p].amount) IN
     IF Balanced(entries)
     THEN /\ ledger' = PostTransaction(ledger, entries,
                           GenerateTransactionRef("PAY", proc[p].payment.id),
                           proc[p].payment.id,
                           IF proc[p].allocation = <<>> THEN 0
                           ELSE proc[p].allocation[1].invoiceId,
                           proc[p].customerId)
          /\ Goto(p, "txComplete")
     ELSE /\ proc' = [proc EXCEPT ![p] = Thrown(p, "Transaction out of balance")]
          /\ UNCHANGED ledger
  /\ UNCHANGED <<customers, invoices, payments, allocations, webhookLogs,
                 nextInvoiceId, posSales, responses>>

\* Mutant: step 4e is left out, the row keeps the status of its creation.
TxPaymentCompleteSkipped(p) ==
  /\ proc[p].pc = "txComplete"
  /\ Goto(p, "txUpdatePOS")
  /\ UNCHANGED <<db, nextInvoiceId, responses>>

\* 4e: tx.payment.update to COMPLETED.
TxPaymentComplete(p) ==
  /\ proc[p].pc = "txComplete"
  /\ proc' = [proc EXCEPT ![p].payment.status = "COMPLETED",
                          ![p].pc = "txUpdatePOS"]
  /\ UNCHANGED <<db, nextInvoiceId, responses>>

\* The invoice rows with the buffered updates of a transaction applied.
ApplyInvoiceUpdates(rows, updates) ==
  [i \in DOMAIN rows |->
     IF \E k \in 1..Len(updates) : updates[k].id = i
     THEN LET u == updates[CHOOSE k \in 1..Len(updates) : updates[k].id = i]
          IN [rows[i] EXCEPT !.amountPaid = u.amountPaid, !.balance = u.balance,
                             !.status = u.status]
     ELSE rows[i]]

\* updatePOSSales, the lookup: tx.pOSSale.findUnique({where: {posId: invoice.posId}}).
\* Invoice.posId holds the id of the sale (convertToInvoice passes sale.id), and the
\* lookup compares it with the POS codes.
SalesOfInvoice(invoice) ==
  {k \in 1..Len(posSales) : posSales[k].posId = SalePk(invoice.posId)}

\* 4f: updatePOSSales re-reads every allocated invoice inside the transaction; a
\* PENDING sale found for an invoice that is PAID is set to PAID and linked.
TxUpdatePOS(p) ==
  /\ proc[p].pc = "txUpdatePOS"
  /\ LET updated == ApplyInvoiceUpdates(invoices, proc[p].txInvoices)
         paid == {updated[proc[p].allocation[k].invoiceId] :
                    k \in 1..Len(proc[p].allocation)}
     IN proc' = [proc EXCEPT
          ![p].txSales =
             UNION {{[id |-> k, invoiceId |-> i.id] :
                       k \in {j \in SalesOfInvoice(i) : posSales[j].status = "PENDING"}} :
                    i \in {x \in paid : x.posId # 0 /\ x.status = "PAID"}},
          ![p].pc = "txCommit"]
  /\ UNCHANGED <<db, nextInvoiceId, responses>>

\* The sale rows with the buffered updates of a transaction applied.
ApplySaleUpdates(rows, updates) ==
  [k \in 1..Len(rows) |->
     IF \E u \in updates : u.id = k
     THEN [rows[k] EXCEPT !.status = "PAID",
                          !.invoiceId = (CHOOSE u \in updates : u.id = k).invoiceId]
     ELSE rows[k]]

\* The callback returns: the transaction commits every write made through tx.
TxCommit(p) ==
  /\ proc[p].pc = "txCommit"
  /\ payments' = payments \cup {proc[p].payment}
  /\ allocations' = allocations \cup
        {[paymentId |-> proc[p].payment.id,
          invoiceId |-> proc[p].allocation[k].invoiceId,
          amountApplied |-> proc[p].allocation[k].amountApplied] :
            k \in 1..Len(proc[p].allocation)}
  /\ invoices' = ApplyInvoiceUpdates(invoices, proc[p].txInvoices)
  /\ customers' = [customers EXCEPT ![proc[p].customerId] = proc[p].newBalance]
  /\ posSales' = ApplySaleUpdates(posSales, proc[p].txSales)
  /\ proc' = [proc EXCEPT ![p] = Returned(p, proc[p].payment.id)]
  /\ UNCHANGED <<ledger, webhookLogs, nextInvoiceId, responses>>

\* A store operation inside the callback throws: the transaction is rolled back
\* (every write made through tx is dropped) and processPayment throws.
TxFail(p) ==
  /\ proc[p].pc \in TxPcs
  /\ proc' = [proc EXCEPT ![p] = Thrown(p, "Storage failure")]
  /\ UNCHANGED <<db, nextInvoiceId, responses>>

\* ------------------------------------------ InvoiceService.createInvoice
\* The customer read and generateInvoiceId, both before the transaction opens.
CreateInvoiceStart(p, customerId, amount, invoiceId) ==
  /\ FreeSlot(p)
  /\ proc' = [proc EXCEPT ![p] =
        [IdleProc EXCEPT !.pc = "ciTx", !.op = "createInvoice",
           !.customerId = customerId, !.amount = amount,
           !.customerBalance = customers[customerId],
           !.accountReference =
              IF invoiceId # "" THEN invoiceId
              ELSE InvoiceCode(Cardinality(DOMAIN invoices) + 1)]]
  /\ UNCHANGED <<db, nextInvoiceId, responses>>

\* Steps 1-3 inside the transaction: tx.invoice.create (UNPAID, balance = amount,
\* amountPaid = 0) and tx.customer.update with the balance read before plus amount.
CreateInvoiceTx(p) ==
  /\ proc[p].pc = "ciTx"
  /\ ~CustomerLocked(p, proc[p].customerId)
  /\ nextInvoiceId' = nextInvoiceId + 1
  /\ proc' = [proc EXCEPT ![p].newInvoice = nextInvoiceId + 1,
                          ![p].newBalance = proc[p].customerBalance + proc[p].amount,
                          ![p].txCustomer = TRUE,
                          ![p].pc = "ciPostLedger"]
  /\ UNCHANGED <<db, responses>>

\* Step 4: AccountingEngine.postInvoiceCreated, called without tx.
CreateInvoicePostLedger(p) ==
  /\ proc[p].pc = "ciPostLedger"
  /\ LET entries == InvoiceCreatedEntries(proc[p].amount) IN
     IF Balanced(entries)
     THEN /\ ledger' = PostTransaction(ledger, entries,
                           GenerateTransactionRef("INV", proc[p].newInvoice), 0,
                           proc[p].newInvoice, proc[p].customerId)
          /\ Goto(p, "ciCommit")
     ELSE /\ Release(p)
          /\ UNCHANGED ledger
  /\ UNCHANGED <<customers, invoices, payments, allocations, webhookLogs,
                 nextInvoiceId, posSales, responses>>

\* The row of tx.invoice.create: nothing paid, the whole amount outstanding.
InvoiceRow(id, invoiceId, customerId, amount) ==
  [id |-> id, invoiceId |-> invoiceId, customerId |-> customerId, amount |-> amount,
   amountPaid |-> 0, balance |-> amount, status |-> "UNPAID", posId |-> 0]

NewInvoice(p) ==
  [InvoiceRow(proc[p].newInvoice, proc[p].accountReference, proc[p].customerId,
              proc[p].amount) EXCEPT !.posId = proc[p].posId]

CreateInvoiceCommit(p) ==
  /\ proc[p].pc = "ciCommit"
  /\ invoices' = [i \in DOMAIN invoices \cup {proc[p].newInvoice} |->
                    IF i = proc[p].newInvoice THEN NewInvoice(p) ELSE invoices[i]]
  /\ customers' = [customers EXCEPT ![proc[p].customerId] = proc[p].newBalance]
  /\ IF proc[p].op = "convertToInvoice" THEN Goto(p, "cvUpdate") ELSE Release(p)
  /\ UNCHANGED <<payments, allocations, ledger, webhookLogs, nextInvoiceId, posSales, responses>>

\* A store operation inside createInvoice's callback throws after the invoice
\* row was written: rollback, and the error goes to the caller.  (A throw before
\* that leaves no trace at all and is the same as no request.)
CreateInvoiceFail(p) ==
  /\ proc[p].pc \in CiTxPcs \ {"ciTx"}
  /\ Release(p)
  /\ UNCHANGED <<db, nextInvoiceId, responses>>

\* ---------------------------- AccountingEngine.postTransaction, called directly
\* A caller hands postTransaction a list of entries of its own, without tx: the
\* call throws on the balance check or creates one row per entry.
PostTransactionCall(entries, n) ==
  /\ proc[1].pc = "idle"
  /\ IF Balanced(entries)
     THEN /\ ledger' = PostTransaction(ledger, entries,
                           GenerateTransactionRef("TXN", n), 0, 0, "")
          /\ proc' = [proc EXCEPT ![1] =
                [IdleProc EXCEPT !.pc = "posted", !.op = "postTransaction",
                                 !.entries = entries]]
     ELSE /\ ledger' = ledger
          /\ proc' = [proc EXCEPT ![1] =
                [IdleProc EXCEPT !.pc = "postThrown", !.op = "postTransaction",
                                 !.entries = entries,
                                 !.error = "Transaction out of balance"]]
  /\ UNCHANGED <<customers, invoices, payments, allocations, webhookLogs,
                 nextInvoiceId, posSales, responses>>

\* postTransaction with a reference of the caller's choosing, which other rows may
\* carry already: the rows are added to those of the reference (each row has an id
\* of its own), or the call throws on the balance check and writes nothing.
PostTransactionUnder(entries, transactionRef) ==
  /\ LET held == Cardinality({e \in ledger : e.transactionRef = transactionRef})
         rows == {[r EXCEPT !.line = r.line + held] :
                    r \in LedgerRows(entries, transactionRef, 0, 0, "")}
     IN ledger' = IF Balanced(entries) THEN ledger \cup rows ELSE ledger
  /\ UNCHANGED <<customers, invoices, payments, allocations, webhookLogs,
                 nextInvoiceId, posSales, responses, proc>>

\* The call is over: the caller has its result or its error.
PostTransactionReturn ==
  /\ proc[1].pc \in {"posted", "postThrown"}
  /\ Release(1)
  /\ UNCHANGED <<db, nextInvoiceId, responses>>

\* ------------------------------------ AccountingEngine.reverseTransaction
\* The rows of a transaction in the order of their entries.
RECURSIVE RowsInOrder(_)
RowsInOrder(rows) ==
  IF rows = {} THEN <<>>
  ELSE LET e == CHOOSE x \in rows : \A y \in rows : x.line <= y.line
       IN <<e>> \o RowsInOrder(rows \ {e})

\* Mutant: the side is kept.
FlipNothing(entryType) == entryType

Flip(entryType) == IF entryType = "DEBIT" THEN "CREDIT" ELSE "DEBIT"

\* Step 2 of reverseTransaction: the mirror entries of the original rows.
ReversalEntries(originalEntries) ==
  [k \in 1..Len(originalEntries) |->
     [accountCode |-> originalEntries[k].accountCode,
      accountType |-> originalEntries[k].accountType,
      entryType |-> Flip(originalEntries[k].entryType),
      amount |-> originalEntries[k].amount]]

\* References a caller may ask to reverse: those in the ledger and one that is not.
ReversibleRefs == {e.transactionRef : e \in ledger} \cup {<<"PAY", 0>>}

\* reverseTransaction: it throws when no row carries originalTransactionRef, else
\* it posts the mirror entries under a fresh reference through the global client.
ReverseTransaction(originalTransactionRef) ==
  LET originalEntries ==
        RowsInOrder({e \in ledger : e.transactionRef = originalTransactionRef})
      reversalEntries == ReversalEntries(originalEntries)
  IN /\ Len(originalEntries) # 0
     /\ Balanced(reversalEntries)
     /\ ledger' = PostTransaction(ledger, reversalEntries,
                      GenerateTransactionRef("REV", Cardinality(ReversalRefs) + 1),
                      originalEntries[1].paymentId, originalEntries[1].invoiceId,
                      originalEntries[1].customerId)
     /\ UNCHANGED <<customers, invoices, payments, allocations, webhookLogs,
                    nextInvoiceId, posSales, responses, proc>>

\* reverseTransaction as its caller sees it: the call throws when no row carries
\* originalTransactionRef, else it returns after the posting.  The caller's slot
\* keeps the outcome until the caller goes on.
ReverseTransactionRun(originalTransactionRef) ==
  /\ LET originalEntries ==
           RowsInOrder({e \in ledger : e.transactionRef = originalTransactionRef})
         reversalEntries == ReversalEntries(originalEntries)
     IN IF Len(originalEntries) = 0
        THEN /\ ledger' = ledger
             /\ proc' = [proc EXCEPT ![1] =
                   [IdleProc EXCEPT !.pc = "reverseThrown", !.op = "reverseTransaction",
                      !.originalTransactionRef = originalTransactionRef,
                      !.error = "Transaction not found"]]
        ELSE IF Balanced(reversalEntries)
        THEN /\ ledger' = PostTransaction(ledger, reversalEntries,
                              GenerateTransactionRef("REV", Cardinality(ReversalRefs) + 1),
                              originalEntries[1].paymentId, originalEntries[1].invoiceId,
                              originalEntries[1].customerId)
             /\ proc' = [proc EXCEPT ![1] =
                   [IdleProc EXCEPT !.pc = "reversed", !.op = "reverseTransaction",
                      !.originalTransactionRef = originalTransactionRef]]
        ELSE /\ ledger' = ledger
             /\ proc' = [proc EXCEPT ![1] =
                   [IdleProc EXCEPT !.pc = "reverseThrown", !.op = "reverseTransaction",
                      !.originalTransactionRef = originalTransactionRef,
                      !.error = "Transaction out of balance"]]
  /\ UNCHANGED <<customers, invoices, payments, allocations, webhookLogs,
                 nextInvoiceId, posSales, responses>>

\* A caller with nothing else in progress calls reverseTransaction.
ReverseTransactionCall(originalTransactionRef) ==
  /\ proc[1].pc = "idle"
  /\ ReverseTransactionRun(originalTransactionRef)

\* The caller whose reversal went through calls reverseTransaction once more with
\* the same original reference (and a fresh reversal reference).
ReverseTransactionAgain ==
  /\ proc[1].pc = "reversed"
  /\ ReverseTransactionRun(proc[1].originalTransactionRef)

ReverseTransactionReturn ==
  /\ proc[1].pc \in {"reversed", "reverseThrown"}
  /\ Release(1)
  /\ UNCHANGED <<db, nextInvoiceId, responses>>

\* -------------------------------------------- InvoiceService.cancelInvoice
\* The pcs at which cancelInvoice is inside its prisma.$transaction callback.
CxTxPcs == {"cxInvoice", "cxCustomer", "cxReverse", "cxCommit"}

\* The checks on the invoice row read before the transaction: "" when the
\* cancellation may go on, else the error thrown.
CancelCheck(id) ==
  IF id \notin DOMAIN invoices THEN "Invoice not found"
  ELSE IF invoices[id].status = "PAID" THEN "Cannot cancel a paid invoice"
  ELSE IF invoices[id].amountPaid > 0 THEN "Cannot cancel partially paid invoice"
  ELSE ""

\* prisma.invoice.findUnique with its customer, and the three checks.
CancelInvoiceStart(p, id) ==
  /\ FreeSlot(p)
  /\ proc' = [proc EXCEPT ![p] =
        IF CancelCheck(id) # ""
        THEN [IdleProc EXCEPT !.pc = "cancelThrown", !.op = "cancelInvoice",
                              !.targetInvoiceId = id, !.error = CancelCheck(id)]
        ELSE [IdleProc EXCEPT !.pc = "cxInvoice", !.op = "cancelInvoice",
                              !.targetInvoiceId = id,
                              !.customerId = invoices[id].customerId,
                              !.customerBalance = customers[invoices[id].customerId],
                              !.amount = invoices[id].amount]]
  /\ UNCHANGED <<db, nextInvoiceId, responses>>

\* Step 1: tx.invoice.update sets the status only; the other columns are those of
\* the row as it is when the update gets the row lock.
CancelInvoiceTxInvoice(p) ==
  /\ proc[p].pc = "cxInvoice"
  /\ LET id == proc[p].targetInvoiceId IN
     /\ ~InvoiceLocked(p, id)
     /\ proc' = [proc EXCEPT
           ![p].txInvoices = <<[id |-> id, amountPaid |-> invoices[id].amountPaid,
                                balance |-> invoices[id].balance,
                                status |-> "CANCELLED"]>>,
           ![p].pc = "cxCustomer"]
  /\ UNCHANGED <<db, nextInvoiceId, responses>>

\* Step 2: tx.customer.update with the balance read before the transaction minus
\* the invoice amount.
CancelInvoiceTxCustomer(p) ==
  /\ proc[p].pc = "cxCustomer"
  /\ ~CustomerLocked(p, proc[p].customerId)
  /\ proc' = [proc EXCEPT ![p].newBalance = proc[p].customerBalance - proc[p].amount,
                          ![p].txCustomer = TRUE,
                          ![p].pc = "cxReverse"]
  /\ UNCHANGED <<db, nextInvoiceId, responses>>

\* findInvoiceTransactionRef: findFirst without orderBy, any ledger row tagged with
\* the invoice may be the one returned.
InvoiceTransactionRefs(id) == {e.transactionRef : e \in {x \in ledger : x.invoiceId = id}}

\* Step 3: the reference found is reversed by AccountingEngine.reverseTransaction,
\* which writes through the global client; no reference, no reversal.
CancelInvoiceReverse(p) ==
  /\ proc[p].pc = "cxReverse"
  /\ IF InvoiceTransactionRefs(proc[p].targetInvoiceId) = {}
     THEN ledger' = ledger
     ELSE \E originalTransactionRef \in InvoiceTransactionRefs(proc[p].targetInvoiceId) :
            LET originalEntries ==
                  RowsInOrder({e \in ledger : e.transactionRef = originalTransactionRef})
            IN ledger' = PostTransaction(ledger, ReversalEntries(originalEntries),
                            GenerateTransactionRef("REV", Cardinality(ReversalRefs) + 1),
                            originalEntries[1].paymentId, originalEntries[1].invoiceId,
                            originalEntries[1].customerId)
  /\ Goto(p, "cxCommit")
  /\ UNCHANGED <<customers, invoices, payments, allocations, webhookLogs,
                 nextInvoiceId, posSales, responses>>

\* The callback returns: the status and the customer balance are committed.
CancelInvoiceCommit(p) ==
  /\ proc[p].pc = "cxCommit"
  /\ invoices' = ApplyInvoiceUpdates(invoices, proc[p].txInvoices)
  /\ customers' = [customers EXCEPT ![proc[p].customerId] = proc[p].newBalance]
  /\ Release(p)
  /\ UNCHANGED <<payments, allocations, ledger, webhookLogs, nextInvoiceId, posSales, responses>>

\* A store operation inside cancelInvoice's callback throws: rollback of what was
\* written through tx, and the error goes to the caller.
CancelInvoiceFail(p) ==
  /\ proc[p].pc \in CxTxPcs
  /\ proc' = [proc EXCEPT ![p] =
        [IdleProc EXCEPT !.pc = "cancelThrown", !.op = "cancelInvoice",
                         !.targetInvoiceId = proc[p].targetInvoiceId,
                         !.error = "Storage failure"]]
  /\ UNCHANGED <<db, nextInvoiceId, responses>>

\* The caller has the error cancelInvoice threw.
CancelInvoiceReturn(p) ==
  /\ proc[p].pc = "cancelThrown"
  /\ Release(p)
  /\ UNCHANGED <<db, nextInvoiceId, responses>>

\* ---------------------------------------- AccountingEngine: read-only calls
\* getAccountBalance without asOfDate: the caller gets the balance.
GetAccountBalanceCall(p, accountCode) ==
  /\ FreeSlot(p)
  /\ proc' = [proc EXCEPT ![p] =
        [IdleProc EXCEPT !.pc = "queried", !.op = "getAccountBalance",
                         !.accountCode = accountCode,
                         !.balance = GetAccountBalance(ledger, accountCode)]]
  /\ UNCHANGED <<db, nextInvoiceId, responses>>

\* getCustomerBalance: debits minus credits of the Accounts Receivable rows tagged
\* with the customer.
GetCustomerBalance(led, customerId) ==
  LET entries == {e \in led : /\ e.accountCode = ACCOUNTS.ACCOUNTS_RECEIVABLE.code
                              /\ e.customerId = customerId}
  IN RowTotal(entries, "DEBIT") - RowTotal(entries, "CREDIT")

\* getAccountBalance called without asOfDate: the parameter is undefined.
NoDate == 0

\* Mutant: entries dated on asOfDate itself are left out.
FindEntriesStrictlyBefore(led, accountCode, asOfDate) ==
  {e \in led : /\ e.accountCode = accountCode
               /\ (asOfDate # NoDate => e.transactionDate < asOfDate)}

\* getAccountBalance, the findMany: the rows of the account, restricted to
\* transactionDate <= asOfDate when asOfDate is given.
FindEntries(led, accountCode, asOfDate) ==
  {e \in led : /\ e.accountCode = accountCode
               /\ (asOfDate # NoDate => e.transactionDate <= asOfDate)}

\* getAccountBalance after the findMany: the side of the balance follows the
\* account type of the first row fetched.
BalanceOfEntries(entries, accountType) ==
  LET totalDebits == RowTotal(entries, "DEBIT")
      totalCredits == RowTotal(entries, "CREDIT")
  IN IF accountType \in {"ASSET", "EXPENSE"}
     THEN totalDebits - totalCredits ELSE totalCredits - totalDebits

\* getAccountBalance with asOfDate.  The findMany has no orderBy: any of the rows
\* fetched may be entries[0].
GetAccountBalanceAsOf(p, accountCode, asOfDate) ==
  /\ FreeSlot(p)
  /\ LET entries == FindEntries(ledger, accountCode, asOfDate)
         result(balance) ==
           [IdleProc EXCEPT !.pc = "queried", !.op = "getAccountBalance",
                            !.accountCode = accountCode, !.asOfDate = asOfDate,
                            !.balance = balance]
     IN IF entries = {}
        THEN proc' = [proc EXCEPT ![p] = result(0)]
        ELSE \E first \in entries :
               proc' = [proc EXCEPT ![p] =
                          result(BalanceOfEntries(entries, first.accountType))]
  /\ UNCHANGED <<db, nextInvoiceId, responses>>

\* Mutant: any difference between the totals is reported.
OutOfBalanceRefsExact(led) ==
  {ref \in {e.transactionRef : e \in led} :
     LET entries == {e \in led : e.transactionRef = ref}
     IN RowTotal(entries, "DEBIT") # RowTotal(entries, "CREDIT")}

\* verifyLedgerIntegrity: the references whose debit and credit totals differ by
\* more than the tolerance.
OutOfBalanceRefs(led) ==
  {ref \in {e.transactionRef : e \in led} :
     LET entries == {e \in led : e.transactionRef = ref}
     IN Abs(RowTotal(entries, "DEBIT") - RowTotal(entries, "CREDIT")) > Eps}

VerifyLedgerIntegrityCall(p) ==
  /\ FreeSlot(p)
  /\ proc' = [proc EXCEPT ![p] =
        [IdleProc EXCEPT !.pc = "queried", !.op = "verifyLedgerIntegrity",
                         !.errors = OutOfBalanceRefs(ledger),
                         !.isValid = (OutOfBalanceRefs(ledger) = {})]]
  /\ UNCHANGED <<db, nextInvoiceId, responses>>

\* The caller of a read-only call has its result.
QueryReturn(p) ==
  /\ proc[p].pc = "queried"
  /\ Release(p)
  /\ UNCHANGED <<db, nextInvoiceId, responses>>

\* ------------------------------------------------------------- POSService
\* The row of pOSSale.create: PENDING, without invoice; customerId is "" for a
\* walk-in customer.
SaleRow(id, customerId, amount) ==
  [id |-> id, posId |-> PosCode(id), customerId |-> customerId, amount |-> amount,
   status |-> "PENDING", invoiceId |-> 0]

\* createSale: generatePOSId numbers the sale after the sales of the day, and
\* pOSSale.create writes it through the global client.
CreateSale(customerId, amount) ==
  /\ Len(posSales) < MaxSales
  /\ posSales' = Append(posSales, SaleRow(Len(posSales) + 1, customerId, amount))
  /\ UNCHANGED <<customers, invoices, payments, allocations, ledger, webhookLogs,
                 nextInvoiceId, responses, proc>>

\* convertToInvoice up to the call of createInvoice: the sale is read by its POS
\* code; a missing sale and a sale that has an invoice throw.  createInvoice then
\* starts with the sale's amount and posId: sale.id.
ConvertToInvoiceStart(p, posId, customerId) ==
  /\ FreeSlot(p)
  /\ LET found == {k \in 1..Len(posSales) : posSales[k].posId = posId} IN
     IF found = {}
     THEN proc' = [proc EXCEPT ![p] =
             [IdleProc EXCEPT !.pc = "cvThrown", !.op = "convertToInvoice",
                              !.error = "POS sale not found"]]
     ELSE LET k == CHOOSE x \in found : TRUE IN
          IF posSales[k].invoiceId # 0
          THEN proc' = [proc EXCEPT ![p] =
                  [IdleProc EXCEPT !.pc = "cvThrown", !.op = "convertToInvoice",
                                   !.error = "POS sale already has invoice"]]
          ELSE proc' = [proc EXCEPT ![p] =
                  [IdleProc EXCEPT !.pc = "ciTx", !.op = "convertToInvoice",
                     !.customerId = customerId, !.amount = posSales[k].amount,
                     !.customerBalance = customers[customerId],
                     !.accountReference =
                        InvoiceCode(Cardinality(DOMAIN invoices) + 1),
                     !.posId = posSales[k].id, !.sale = k]]
  /\ UNCHANGED <<db, nextInvoiceId, responses>>

\* convertToInvoice after createInvoice returned: pOSSale.update through the global
\* client sets the invoice, PAID and the customer.
ConvertToInvoiceUpdate(p) ==
  /\ proc[p].pc = "cvUpdate"
  /\ posSales' = [posSales EXCEPT ![proc[p].sale] =
                     [@ EXCEPT !.invoiceId = proc[p].newInvoice, !.status = "PAID",
                               !.customerId = proc[p].customerId]]
  /\ Release(p)
  /\ UNCHANGED <<customers, invoices, payments, allocations, ledger, webhookLogs,
                 nextInvoiceId, responses>>

\* The pOSSale.update of convertToInvoice throws: the invoice stays, with its
\* posId, and the sale stays as it was; the caller has the error.
ConvertToInvoiceUpdateFail(p) ==
  /\ proc[p].pc = "cvUpdate"
  /\ Release(p)
  /\ UNCHANGED <<db, nextInvoiceId, responses>>

\* convertToInvoice threw: the caller has the error.
ConvertToInvoiceReturn(p) ==
  /\ proc[p].pc = "cvThrown"
  /\ Release(p)
  /\ UNCHANGED <<db, nextInvoiceId, responses>>

\* ------------------------------------------------------------ specification
\* A callback arrives in slot p.
Deliver(p) ==
  \E r \in NextReceipts, a \in AccountRefs, m \in PayAmounts, d \in TransactionDays :
    Receive(p, r, a, m, d)

\* A createInvoice call arrives in slot p.
Issue(p) ==
  \E c \in Customers, m \in InvoiceAmounts : CreateInvoiceStart(p, c, m, "")

\* A reverseTransaction call.
Reverse == \E ref \in ReversibleRefs : ReverseTransaction(ref)

\* The request running in slot p takes its next step.
Settle(p) ==
  \/ CreateLog(p)
  \/ FindPayment(p)
  \/ IdentifyPaymentTarget(p)
  \/ Validate(p)
  \/ TxPaymentCreate(p)
  \/ TxFindInvoices(p)
  \/ TxAllocate(p)
  \/ TxCustomerUpdate(p)
  \/ PostPaymentReceived(p)
  \/ TxPaymentComplete(p)
  \/ TxUpdatePOS(p)
  \/ TxCommit(p)
  \/ TxFail(p)
  \/ LogSuccess(p)
  \/ LogError(p)

Invoice(p) ==
  \/ CreateInvoiceTx(p)
  \/ CreateInvoicePostLedger(p)
  \/ CreateInvoiceCommit(p)
  \/ CreateInvoiceFail(p)

\* Requests arrive and run concurrently, MaxRequests of them.
Next ==
  \E p \in Procs :
    \/ Requests < MaxRequests /\ Deliver(p)
    \/ Requests < MaxRequests /\ Issue(p)
    \/ Requests < MaxRequests /\ Reverse
    \/ Settle(p)
    \/ Invoice(p)

Spec == Init /\ [][Next]_vars

\* Requests run one after the other, MaxSerialRequests of them.
NextSerial ==
  \/ Requests < MaxSerialRequests /\ Deliver(1)
  \/ Requests < MaxSerialRequests /\ Issue(1)
  \/ Requests < MaxSerialRequests /\ proc[1].pc = "idle" /\ Reverse
  \/ Settle(1)
  \/ Invoice(1)

SpecSerial == Init /\ [][NextSerial]_vars

\* Two callbacks run concurrently against a customer who has one open invoice:
\* the store is as one createInvoice call leaves it.
InitSettle ==
  \E c \in Customers, m \in InvoiceAmounts :
    /\ customers = [x \in Customers |-> IF x = c THEN m ELSE 0]
    /\ invoices = <<InvoiceRow(1, InvoiceCode(1), c, m)>>
    /\ payments = {}
    /\ allocations = {}
    /\ ledger = PostTransaction({}, InvoiceCreatedEntries(m),
                                GenerateTransactionRef("INV", 1), 0, 1, c)
    /\ webhookLogs = <<>>
    /\ posSales = <<>>
    /\ nextInvoiceId = 1
    /\ responses = <<>>
    /\ proc = [p \in Procs |-> IdleProc]

NextSettle ==
  \E p \in Procs :
    \/ Requests < MaxRequests /\ Deliver(p)
    \/ Settle(p)

SpecSettle == InitSettle /\ [][NextSettle]_vars

\* Requests one after the other, with invoice codes chosen by the caller of
\* createInvoice (params.invoiceId) and account references of every kind: codes
\* and internal ids of customers and invoices, and strings that are both.
GivenInvoiceIds == {"CUST-c1", "c1"}

ResolveRefs == AccountRefs \cup {"c1", "i1"}

IssueWithCode(p) ==
  \E c \in Customers, m \in InvoiceAmounts, id \in GivenInvoiceIds :
    CreateInvoiceStart(p, c, m, id)

DeliverAny(p) ==
  \E r \in NextReceipts, a \in ResolveRefs, m \in PayAmounts, d \in TransactionDays :
    Receive(p, r, a, m, d)

NextResolve ==
  \/ Requests < MaxResolveRequests /\ DeliverAny(1)
  \/ Requests < MaxResolveRequests /\ Issue(1)
  \/ Requests < MaxResolveRequests /\ IssueWithCode(1)
  \/ Settle(1)
  \/ Invoice(1)

SpecResolve == Init /\ [][NextResolve]_vars

\* Callbacks with amounts at and above the single-transaction ceiling, stamped
\* today or the day before, for a customer or for nobody, run concurrently; the
\* customer has one open invoice.
LargeAmounts == {MaxTransactionAmount, MaxTransactionAmount + 1}

LimitDays == {Today - 1, Today}

LimitRefs == {"CUST-c1", "NOPE"}

DeliverLarge(p) ==
  \E r \in NextReceipts, a \in LimitRefs, m \in LargeAmounts, d \in LimitDays :
    Receive(p, r, a, m, d)

NextLimits ==
  \E p \in Procs :
    \/ Requests < MaxLimitRequests /\ DeliverLarge(p)
    \/ Settle(p)

SpecLimits == InitSettle /\ [][NextLimits]_vars

\* postTransaction called directly, MaxPostCalls postings at most, with every list
\* of up to two entries over two accounts, both sides and three amounts.
PostAmounts == {3, 4, 5}

PostEntries ==
  {Entry(a, t, m) : a \in {ACCOUNTS.MPESA_CASH, ACCOUNTS.ACCOUNTS_RECEIVABLE},
                    t \in {"DEBIT", "CREDIT"}, m \in PostAmounts}

EntryLists ==
  {<<>>} \cup {<<e>> : e \in PostEntries}
         \cup {<<e, f>> : e \in PostEntries, f \in PostEntries}

PostedRefs == {e.transactionRef : e \in {x \in ledger : x.transactionRef[1] = "TXN"}}

NextPost ==
  \/ /\ Cardinality(PostedRefs) < MaxPostCalls
     /\ \E entries \in EntryLists :
          PostTransactionCall(entries, Cardinality(PostedRefs) + 1)
  \/ PostTransactionReturn

SpecPost == Init /\ [][NextPost]_vars

\* Invoices, callbacks and reversals one after the other, the outcome of every
\* reverseTransaction call kept until the call returns.
NextReverse ==
  \/ Requests < MaxReverseRequests /\ Deliver(1)
  \/ Requests < MaxReverseRequests /\ Issue(1)
  \/ /\ Requests < MaxReverseRequests
     /\ \E ref \in ReversibleRefs : ReverseTransactionCall(ref)
  \/ Requests < MaxReverseRequests /\ ReverseTransactionAgain
  \/ ReverseTransactionReturn
  \/ Settle(1)
  \/ Invoice(1)

SpecReverse == Init /\ [][NextReverse]_vars

\* Invoices are issued, paid and cancelled: a cancelInvoice call names an invoice
\* by its internal id, which may or may not exist.
CancelIds == {1, 2}

Cancel(p) == \E id \in CancelIds : CancelInvoiceStart(p, id)

\* The cancelInvoice call running in slot p takes its next step.
CancelStep(p) ==
  \/ CancelInvoiceTxInvoice(p)
  \/ CancelInvoiceTxCustomer(p)
  \/ CancelInvoiceReverse(p)
  \/ CancelInvoiceCommit(p)
  \/ CancelInvoiceFail(p)
  \/ CancelInvoiceReturn(p)

\* Concurrently, MaxCancelRequests requests at most.
NextCancel ==
  \E p \in Procs :
    \/ Requests < MaxCancelRequests /\ Deliver(p)
    \/ Requests < MaxCancelRequests /\ Issue(p)
    \/ Requests < MaxCancelRequests /\ Cancel(p)
    \/ Settle(p)
    \/ Invoice(p)
    \/ CancelStep(p)

SpecCancel == Init /\ [][NextCancel]_vars

\* One after the other, MaxCancelSerialRequests requests at most.
NextCancelSerial ==
  \/ Requests < MaxCancelSerialRequests /\ Deliver(1)
  \/ Requests < MaxCancelSerialRequests /\ Issue(1)
  \/ Requests < MaxCancelSerialRequests /\ Cancel(1)
  \/ Settle(1)
  \/ Invoice(1)
  \/ CancelStep(1)

SpecCancelSerial == Init /\ [][NextCancelSerial]_vars

\* Every operation that touches the ledger, concurrently: callbacks, createInvoice,
\* cancelInvoice, reverseTransaction and postTransaction called directly,
\* getAccountBalance and verifyLedgerIntegrity.
QueryAccounts == {ACCOUNTS.MPESA_CASH.code, ACCOUNTS.SALES_REVENUE.code}

Query(p) ==
  \/ \E accountCode \in QueryAccounts : GetAccountBalanceCall(p, accountCode)
  \/ VerifyLedgerIntegrityCall(p)

LedgerEntryLists ==
  {<<>>, PaymentReceivedEntries(3),
   <<Entry(ACCOUNTS.MPESA_CASH, "DEBIT", 5),
     Entry(ACCOUNTS.ACCOUNTS_RECEIVABLE, "CREDIT", 3)>>}

NextLedger ==
  \E p \in Procs :
    \/ Requests < MaxLedgerRequests /\ Deliver(p)
    \/ Requests < MaxLedgerRequests /\ Issue(p)
    \/ Requests < MaxLedgerRequests /\ Cancel(p)
    \/ /\ Requests < MaxLedgerRequests
       /\ \E ref \in ReversibleRefs : ReverseTransactionCall(ref)
    \/ ReverseTransactionReturn
    \/ /\ Cardinality(PostedRefs) < MaxPostCalls
       /\ \E entries \in LedgerEntryLists :
            PostTransactionCall(entries, Cardinality(PostedRefs) + 1)
    \/ PostTransactionReturn
    \/ Query(p)
    \/ QueryReturn(p)
    \/ Settle(p)
    \/ Invoice(p)
    \/ CancelStep(p)

SpecLedger == Init /\ [][NextLedger]_vars

\* The handler with everything that can go wrong in it: payloads that do not
\* parse, failing reads and writes of the webhook log, failing settlements;
\* MaxHandlerRequests invocations, concurrently, for a customer with one invoice.
HandlerRequests ==
  Len(responses) + Cardinality({q \in Procs : proc[q].op = "webhook"})

DeliverInvalid(p) ==
  \/ ReceiveInvalid(p, "", FALSE)
  \/ \E r \in NextReceipts : ReceiveInvalid(p, r, TRUE)

HandlerFail(p) ==
  \/ LogWriteFail(p)
  \/ LogInvalid(p)
  \/ LogInvalidFail(p)

NextHandler ==
  \E p \in Procs :
    \/ HandlerRequests < MaxHandlerRequests /\ Deliver(p)
    \/ HandlerRequests < MaxHandlerRequests /\ DeliverInvalid(p)
    \/ Settle(p)
    \/ HandlerFail(p)

SpecHandler == InitSettle /\ [][NextHandler]_vars

\* One after the other: sales are rung up, customers pay with the POS code, an
\* invoice code or their customer code as account reference, and sales are
\* converted to invoices.
PosRefs == {PosCode(1), InvoiceCode(1), "CUST-c1"}

SaleCustomers == Customers \cup {""}

DeliverPos(p) ==
  \E r \in NextReceipts, a \in PosRefs, m \in PayAmounts, d \in TransactionDays :
    Receive(p, r, a, m, d)

Ring == \E c \in SaleCustomers, m \in InvoiceAmounts : CreateSale(c, m)

Convert(p) ==
  \/ \E k \in 1..MaxSales, c \in Customers : ConvertToInvoiceStart(p, PosCode(k), c)
  \/ ConvertToInvoiceUpdate(p)
  \/ ConvertToInvoiceUpdateFail(p)
  \/ ConvertToInvoiceReturn(p)

NextPos ==
  \/ proc[1].pc = "idle" /\ Ring
  \/ Requests < MaxPosRequests /\ DeliverPos(1)
  \/ Requests < MaxPosRequests /\ Convert(1)
  \/ Settle(1)
  \/ Invoice(1)

SpecPos == Init /\ [][NextPos]_vars

\* getAccountBalance over ledgers whose rows carry their transactionDate: up to
\* MaxBalanceTransactions postings, each on a day of its own choosing, queried for
\* every account with and without asOfDate.
BalanceDays == {1, 2, 3}

LOANS_PAYABLE == [code |-> "2000", type |-> "LIABILITY"]

BalanceEntryLists ==
  {PaymentReceivedEntries(3), InvoiceCreatedEntries(4),
   <<Entry(ACCOUNTS.MPESA_CASH, "DEBIT", 5), Entry(LOANS_PAYABLE, "CREDIT", 5)>>,
   <<Entry(ACCOUNTS.COST_OF_GOODS_SOLD, "DEBIT", 2),
     Entry(ACCOUNTS.MPESA_CASH, "CREDIT", 2)>>}

BalanceAccounts ==
  {ACCOUNTS[k].code : k \in DOMAIN ACCOUNTS} \cup {LOANS_PAYABLE.code, "9999"}

\* postTransaction's rows with the transactionDate column.
DatedRows(entries, transactionRef, transactionDate) ==
  {[transactionRef |-> transactionRef, line |-> k,
    accountCode |-> entries[k].accountCode,
    accountType |-> entries[k].accountType,
    entryType |-> entries[k].entryType,
    amount |-> entries[k].amount,
    paymentId |-> 0, invoiceId |-> 0, customerId |-> "",
    transactionDate |-> transactionDate] : k \in 1..Len(entries)}

InitBalance ==
  \E n \in 0..MaxBalanceTransactions :
    \E lists \in [1..n -> BalanceEntryLists], days \in [1..n -> BalanceDays] :
      /\ customers = [x \in Customers |-> 0]
      /\ invoices = <<>>
      /\ payments = {}
      /\ allocations = {}
      /\ ledger = UNION {DatedRows(lists[k], GenerateTransactionRef("TXN", k), days[k]) :
                           k \in 1..n}
      /\ webhookLogs = <<>>
      /\ posSales = <<>>
      /\ nextInvoiceId = 0
      /\ responses = <<>>
      /\ proc = [p \in Procs |-> IdleProc]

NextBalance ==
  \/ \E accountCode \in BalanceAccounts, asOfDate \in BalanceDays \cup {NoDate} :
       GetAccountBalanceAsOf(1, accountCode, asOfDate)
  \/ QueryReturn(1)

SpecBalance == InitBalance /\ [][NextBalance]_vars

\* verifyLedgerIntegrity over ledgers written by callers of postTransaction who
\* choose their references and post lists that are balanced to the cent or within
\* the tolerance; one call at a time.
VerifyRefs == {GenerateTransactionRef("TXN", 1), GenerateTransactionRef("TXN", 2)}

VerifyEntryLists ==
  {PaymentReceivedEntries(3),
   <<Entry(ACCOUNTS.MPESA_CASH, "DEBIT", 3),
     Entry(ACCOUNTS.ACCOUNTS_RECEIVABLE, "CREDIT", 2)>>,
   <<Entry(ACCOUNTS.MPESA_CASH, "DEBIT", 5),
     Entry(ACCOUNTS.ACCOUNTS_RECEIVABLE, "CREDIT", 3)>>}

NextVerify ==
  \/ /\ proc[1].pc = "idle"
     /\ \E entries \in VerifyEntryLists, ref \in VerifyRefs :
          /\ Cardinality(ledger) + Len(entries) <= MaxVerifyRows
          /\ PostTransactionUnder(entries, ref)
  \/ VerifyLedgerIntegrityCall(1)
  \/ QueryReturn(1)

SpecVerify == Init /\ [][NextVerify]_vars

\* createInvoice, settlements and cancelInvoice one after the other, the store
\* never failing: an operation ends by returning or by throwing on one of its own
\* checks.
NextSuccess ==
  \/ Requests < MaxSuccessRequests /\ Deliver(1)
  \/ Requests < MaxSuccessRequests /\ Issue(1)
  \/ Requests < MaxSuccessRequests /\ Cancel(1)
  \/ Settle(1) /\ ~TxFail(1)
  \/ Invoice(1) /\ ~CreateInvoiceFail(1)
  \/ CancelStep(1) /\ ~CancelInvoiceFail(1)

SpecSuccess == Init /\ [][NextSuccess]_vars

\* createInvoice and settlements one after the other, with invoice amounts of every
\* size createInvoice accepts (it checks the customer, not the amount): nothing, one
\* cent, and more.
StatusAmounts == {0, 1, 4}

IssueAny(p) ==
  \E c \in Customers, m \in StatusAmounts : CreateInvoiceStart(p, c, m, "")

NextStatus ==
  \/ Requests < MaxStatusRequests /\ Deliver(1)
  \/ Requests < MaxStatusRequests /\ IssueAny(1)
  \/ Settle(1)
  \/ Invoice(1)

SpecStatus == Init /\ [][NextStatus]_vars

\* One settlement and one createInvoice or cancelInvoice call, concurrently, for a
\* customer who has one open invoice; the store never fails.
InvoiceCallMade ==
  \/ nextInvoiceId > 1
  \/ ReversalRefs # {}
  \/ \E q \in Procs : proc[q].op \in {"createInvoice", "cancelInvoice"}

CallbackMade == Len(webhookLogs) > 0 \/ \E q \in Procs : proc[q].op = "webhook"

NextRace ==
  \E p \in Procs :
    \/ ~CallbackMade /\ Deliver(p)
    \/ ~InvoiceCallMade /\ Issue(p)
    \/ ~InvoiceCallMade /\ Cancel(p)
    \/ Settle(p) /\ ~TxFail(p)
    \/ Invoice(p) /\ ~CreateInvoiceFail(p)
    \/ CancelStep(p) /\ ~CancelInvoiceFail(p)

SpecRace == InitSettle /\ [][NextRace]_vars

\* ------------------------------------------------------------------ claims
Quiescent == \A p \in Procs : proc[p].pc = "idle"

LogIds == 1..Len(webhookLogs)

Completed == {x \in payments : x.status = "COMPLETED"}

\* C1: at most one Payment row exists for a given mpesaReceiptNumber, in every
\* reachable state and under every interleaving of deliveries.
C1_OnePaymentPerReceipt ==
  \A x \in payments, y \in payments :
    x.mpesaReceiptNumber = y.mpesaReceiptNumber => x = y

\* Two deliveries of one receipt both passed the webhook-log check (they ran
\* concurrently), both have ended, and the receipt has its Payment.
C1_Witness ==
  \E i \in LogIds, j \in LogIds :
    /\ i < j
    /\ webhookLogs[i].mpesaReceiptNumber = webhookLogs[j].mpesaReceiptNumber
    /\ ~webhookLogs[i].isDuplicate /\ ~webhookLogs[j].isDuplicate
    /\ Quiescent
    /\ \E x \in payments : x.mpesaReceiptNumber = webhookLogs[i].mpesaReceiptNumber

\* C2: when a step of the settlement fails after the Payment row was created,
\* nothing the settlement produced persists once the call has ended: no Payment
\* row, no allocation, no invoice or customer-balance change, no ledger row.
C2_FailedSettlementLeavesNothing ==
  [][\A p \in Procs :
       (proc[p].pc \in TxPcs /\ proc[p].payment.id # 0 /\ proc'[p].pc = "logError")
       => /\ \A x \in payments' : x.id # proc[p].payment.id
          /\ \A a \in allocations' : a.paymentId # proc[p].payment.id
          /\ invoices' = invoices
          /\ customers' = customers
          /\ \A e \in ledger' : e.paymentId # proc[p].payment.id]_vars

\* C3: whenever no request is in progress (and no reversal has been posted), the
\* ledger balance of Cash (1010) equals the sum of the amounts of the COMPLETED
\* Payments: money is neither lost nor counted twice.
C3_CashEqualsCompletedPayments ==
  (Quiescent /\ ReversalRefs = {})
  => GetAccountBalance(ledger, ACCOUNTS.MPESA_CASH.code) = SumAmount(Completed)

DuplicateLog(receipt) ==
  [mpesaReceiptNumber |-> receipt, processed |-> FALSE, isDuplicate |-> TRUE,
   processingError |-> "Duplicate webhook - already processed", paymentId |-> 0]

\* C4: deliveries one after the other: a callback whose receipt already has its
\* Payment is rejected as a duplicate.  Its one step appends a log row with
\* isDuplicate = TRUE and processed = FALSE, changes no customer, invoice, Payment,
\* allocation or ledger row, leaves exactly one Payment for the receipt and ends
\* the call.
C4_RedeliveryIsDuplicate ==
  [][(/\ proc[1].pc = "createLog"
      /\ \E x \in payments : x.mpesaReceiptNumber = proc[1].mpesaReceiptNumber)
     => /\ webhookLogs' = Append(webhookLogs, DuplicateLog(proc[1].mpesaReceiptNumber))
        /\ UNCHANGED <<customers, invoices, payments, allocations, ledger>>
        /\ Cardinality({x \in payments' :
              x.mpesaReceiptNumber = proc[1].mpesaReceiptNumber}) = 1
        /\ proc'[1].pc = "idle"]_vars

\* A receipt was settled by one callback and a later callback with the same receipt
\* was logged as a duplicate.
C4_Witness ==
  \E i \in LogIds, j \in LogIds :
    /\ i < j
    /\ webhookLogs[i].mpesaReceiptNumber = webhookLogs[j].mpesaReceiptNumber
    /\ webhookLogs[i].processed /\ webhookLogs[i].paymentId = i
    /\ webhookLogs[j] = DuplicateLog(webhookLogs[i].mpesaReceiptNumber)
    /\ \E x \in payments : x.id = i /\ x.status = "COMPLETED"

\* C5: two callbacks with the same receipt in flight together: one creates the
\* Payment, the other is rejected as a duplicate.  The callback that did not
\* create the Payment never has its log row marked processed and never ends with
\* the storage's unique-constraint error.
C5_ConcurrentLoserIsDuplicate ==
  \A i \in LogIds, j \in LogIds :
    (/\ i # j
     /\ webhookLogs[i].mpesaReceiptNumber = webhookLogs[j].mpesaReceiptNumber
     /\ \E x \in payments : x.id = i)
    => /\ ~webhookLogs[j].processed
       /\ webhookLogs[j].processingError
            # "Unique constraint failed on mpesaReceiptNumber"

\* C6: deliveries one after the other: when the settlement of a receipt has failed
\* in the storage and no Payment for the receipt persists, the next callback with
\* that receipt is not taken for a duplicate.
C6_RetryAfterFailureIsFresh ==
  (/\ proc[1].pc = "createLog"
   /\ \A x \in payments : x.mpesaReceiptNumber # proc[1].mpesaReceiptNumber
   /\ \E k \in LogIds :
        /\ webhookLogs[k].mpesaReceiptNumber = proc[1].mpesaReceiptNumber
        /\ webhookLogs[k].processingError = "Storage failure")
  => ~proc[1].existingLog

\* The amounts applied by a set of allocation rows, summed.
SumApplied(rows) ==
  SumAmount({[paymentId |-> a.paymentId, invoiceId |-> a.invoiceId,
              amount |-> a.amountApplied] : a \in rows})

\* C7: two callbacks with distinct receipts for one customer, run concurrently, end
\* in the state of a serial execution: once both have ended the customer balance
\* is what was invoiced minus every payment recorded, and every invoice's amountPaid
\* is the sum of the allocation rows written against it.
C7_ConcurrentSettlementsSerialise ==
  Quiescent =>
    /\ \A c \in Customers :
         customers[c] =
           SumAmount({invoices[i] : i \in {k \in DOMAIN invoices :
                                            invoices[k].customerId = c}})
           - SumAmount({x \in payments : x.customerId = c})
    /\ \A i \in DOMAIN invoices :
         invoices[i].amountPaid = SumApplied({a \in allocations : a.invoiceId = i})

\* C8: every invoice row satisfies amountPaid + balance = amount (within the
\* tolerance), amountPaid >= 0 and balance >= 0, after any sequence of invoice
\* creations and payment allocations.
C8_InvoiceArithmetic ==
  \A i \in DOMAIN invoices :
    /\ Abs(invoices[i].amountPaid + invoices[i].balance - invoices[i].amount) <= Eps
    /\ invoices[i].amountPaid >= 0
    /\ invoices[i].balance >= 0

\* An invoice has received two allocations, the second from a payment larger than
\* what was still outstanding.
C8_Witness ==
  \E i \in DOMAIN invoices :
    /\ Cardinality({a \in allocations : a.invoiceId = i}) = 2
    /\ invoices[i].balance = 0
    /\ \E a \in allocations, x \in payments :
         a.invoiceId = i /\ x.id = a.paymentId /\ a.amountApplied < x.amount

TransactionRefs == {e.transactionRef : e \in ledger}

\* C9: for every transaction reference in the ledger the DEBIT amounts and the
\* CREDIT amounts have the same sum (within the tolerance), whether the rows were
\* posted by invoice creation, by settlement or by reversal.
C9_LedgerBalancedPerReference ==
  \A ref \in TransactionRefs :
    LET rows == {e \in ledger : e.transactionRef = ref}
    IN Abs(RowTotal(rows, "DEBIT") - RowTotal(rows, "CREDIT")) <= Eps

\* The ledger holds an invoice posting, a settlement posting and a reversal.
C9_Witness ==
  /\ \E ref \in TransactionRefs : ref[1] = "INV"
  /\ \E ref \in TransactionRefs : ref[1] = "PAY"
  /\ \E ref \in TransactionRefs : ref[1] = "REV"

\* What the allocation loop of slot 1 has applied to invoice i.
Applied(i) ==
  SumSeq([k \in 1..Len(proc[1].allocation) |->
            IF proc[1].allocation[k].invoiceId = i
            THEN proc[1].allocation[k].amountApplied ELSE 0])

OpenInvoicesOf(customerId) ==
  {i \in DOMAIN invoices : /\ invoices[i].customerId = customerId
                            /\ invoices[i].status \in {"UNPAID", "PARTIALLY_PAID"}}

\* C10: allocation of an on-account payment is oldest first: when the loop has
\* ended, an open invoice has received something only if every older open invoice
\* of the customer has received its whole balance.
C10_AllocationIsFifo ==
  (/\ proc[1].op = "webhook"
   /\ proc[1].pc = "txCustomerUpdate"
   /\ proc[1].targetInvoiceId = 0)
  => \A i \in OpenInvoicesOf(proc[1].customerId),
        j \in OpenInvoicesOf(proc[1].customerId) :
       (i < j /\ Applied(j) > 0) => Applied(i) = invoices[i].balance

\* Three open invoices, the oldest of 4 and the next of 6; a payment of 5 on the
\* account gives 4 to the oldest, 1 to the next and nothing to the third.
C10_Witness ==
  /\ proc[1].op = "webhook"
  /\ proc[1].pc = "txCustomerUpdate"
  /\ proc[1].targetInvoiceId = 0
  /\ proc[1].amount = 5
  /\ OpenInvoicesOf(proc[1].customerId) = {1, 2, 3}
  /\ invoices[1].balance = 4 /\ invoices[2].balance = 6
  /\ Applied(1) = 4 /\ Applied(2) = 1 /\ Applied(3) = 0

\* The amounts of a list of allocations, and the balances of a list of invoice rows.
AppliedAmounts(allocation) ==
  [k \in 1..Len(allocation) |-> allocation[k].amountApplied]

Balances(rows) == [k \in 1..Len(rows) |-> rows[k].balance]

C12_SettlementLowersBalanceByAmount ==
  [][\A p \in Procs :
       (proc[p].pc = "txCommit" /\ proc'[p].pc = "logSuccess")
       => customers'[proc[p].customerId]
            = customers[proc[p].customerId] - proc[p].amount]_vars

\* C13: when the account reference resolved to an invoice, the settlement
\* allocates to that invoice only: the rows fetched are that invoice or nothing,
\* the one amount applied is min(payment amount, the balance fetched), the loop
\* ends there, and the commit writes allocation rows for that invoice only and
\* leaves every other invoice row as it was.
C13_TargetInvoiceOnly ==
  [][\A p \in Procs :
       proc[p].targetInvoiceId # 0 =>
         /\ proc[p].pc = "txFindInvoices" /\ proc'[p].pc \in {"txAllocate", "txCustomerUpdate"}
            => /\ Len(proc'[p].snapshot) <= 1
               /\ \A k \in 1..Len(proc'[p].snapshot) :
                    proc'[p].snapshot[k].id = proc[p].targetInvoiceId
         /\ proc[p].pc = "txAllocate"
            /\ Len(proc'[p].allocation) = Len(proc[p].allocation) + 1
            => /\ proc'[p].allocation =
                    <<[invoiceId |-> proc[p].targetInvoiceId,
                       amountApplied |-> Min(proc[p].amount,
                                             Head(proc[p].snapshot).balance)]>>
               /\ proc'[p].pc = "txCustomerUpdate"
         /\ proc[p].pc = "txCommit" /\ proc'[p].pc = "logSuccess"
            => /\ \A a \in allocations' \ allocations :
                    a.invoiceId = proc[p].targetInvoiceId
               /\ \A i \in DOMAIN invoices :
                    i # proc[p].targetInvoiceId => invoices'[i] = invoices[i]]_vars

\* A payment of 5 aimed at invoice 1, whose balance was 4, is about to commit with
\* 4 applied to invoice 1 and 1 left over, while invoice 2 of the same customer is
\* open.
C13_Witness ==
  \E p \in Procs :
    /\ proc[p].pc = "txCommit"
    /\ proc[p].targetInvoiceId = 1
    /\ proc[p].amount = 5
    /\ proc[p].allocation = <<[invoiceId |-> 1, amountApplied |-> 4]>>
    /\ proc[p].remainingAmount = 1
    /\ 2 \in DOMAIN invoices
    /\ invoices[2].customerId = proc[p].customerId
    /\ invoices[2].status = "UNPAID"

\* C14: a settlement that takes effect leaves every invoice it applied a positive
\* amount to with status PAID exactly when the new balance is within the tolerance
\* of zero and PARTIALLY_PAID otherwise; an invoice it applied nothing to keeps its
\* status.
C14_StatusAfterAllocation ==
  [][\A p \in Procs :
       (proc[p].pc = "txCommit" /\ proc'[p].pc = "logSuccess")
       => \A i \in DOMAIN invoices :
            IF \E a \in allocations' \ allocations :
                 a.invoiceId = i /\ a.amountApplied > 0
            THEN invoices'[i].status =
                   IF invoices'[i].balance <= Eps THEN "PAID" ELSE "PARTIALLY_PAID"
            ELSE invoices'[i].status = invoices[i].status]_vars

\* An invoice of 6 has received a payment of 3: PARTIALLY_PAID, amountPaid 3,
\* balance 3.
C14_Witness ==
  \E i \in DOMAIN invoices, a \in allocations :
    /\ a.invoiceId = i /\ a.amountApplied = 3
    /\ invoices[i].amount = 6 /\ invoices[i].amountPaid = 3
    /\ invoices[i].balance = 3 /\ invoices[i].status = "PARTIALLY_PAID"

\* C15: target resolution puts invoices first.  When the account reference is the
\* internal id or the code of an invoice, the result is that invoice with its
\* customer and kind INVOICE, also when the same string is a customer's id or
\* code; kind ACCOUNT without an invoice comes only when no invoice matches and a
\* customer does; when nothing matches, resolution fails.
C15_InvoiceFirstResolution ==
  [][(proc[1].pc = "identify" /\ proc'[1].pc # "identify")
     => LET ref == proc[1].accountReference
            byInvoice == {i \in DOMAIN invoices :
                            invoices[i].invoiceId = ref \/ InvoicePk(i) = ref}
            byCustomer == {c \in Customers : c = ref \/ CustomerCode(c) = ref}
        IN IF byInvoice # {}
           THEN /\ proc'[1].pc = "validate"
                /\ proc'[1].paymentType = "INVOICE"
                /\ proc'[1].targetInvoiceId \in byInvoice
                /\ proc'[1].customerId = invoices[proc'[1].targetInvoiceId].customerId
           ELSE IF byCustomer # {}
           THEN /\ proc'[1].pc = "validate"
                /\ proc'[1].paymentType = "ACCOUNT"
                /\ proc'[1].targetInvoiceId = 0
                /\ proc'[1].customerId \in byCustomer
           ELSE /\ proc'[1].pc = "logError"
                /\ proc'[1].error = "Invalid account reference"]_vars

\* An invoice carries the code CUST-c1, which is also the code of customer c1; a
\* callback with that reference was resolved to the invoice.
C15_Witness ==
  /\ proc[1].pc = "validate"
  /\ proc[1].accountReference = CustomerCode("c1")
  /\ proc[1].paymentType = "INVOICE"
  /\ proc[1].targetInvoiceId \in DOMAIN invoices
  /\ invoices[proc[1].targetInvoiceId].invoiceId = CustomerCode("c1")

ResolutionError == "Invalid account reference"

ValidationErrors == {"Payment amount exceeds maximum", "Daily limit exceeded"}

\* C16: a settlement that fails at target resolution or at rule validation writes
\* nothing but its log row: the failing step and the logging step leave customers,
\* invoices, Payments, allocations and the ledger as they were, no Payment,
\* allocation or ledger row of this callback exists, and the log row of the
\* callback ends with the error text and processed = FALSE.
C16_EarlyFailureOnlyLogs ==
  [][\A p \in Procs :
       /\ (proc[p].pc \in {"identify", "validate"} /\ proc'[p].pc = "logError")
          => /\ UNCHANGED <<customers, invoices, payments, allocations, ledger>>
             /\ proc[p].pc = "identify" => proc'[p].error = ResolutionError
             /\ proc[p].pc = "validate" => proc'[p].error \in ValidationErrors
       /\ (/\ proc[p].pc = "logError"
           /\ proc[p].error \in ValidationErrors \cup {ResolutionError}
           /\ webhookLogs'[proc[p].logId] # webhookLogs[proc[p].logId])
          => /\ UNCHANGED <<customers, invoices, payments, allocations, ledger>>
             /\ webhookLogs'[proc[p].logId].processingError = proc[p].error
             /\ ~webhookLogs'[proc[p].logId].processed
             /\ \A x \in payments' : x.id # proc[p].logId
             /\ \A a \in allocations' : a.paymentId # proc[p].logId
             /\ \A e \in ledger' : e.paymentId # proc[p].logId]_vars

\* One callback has failed at resolution and one at validation; both are logged
\* with their error and nothing else was written.
C16_Witness ==
  /\ Quiescent
  /\ \E k \in LogIds : /\ webhookLogs[k].processingError = ResolutionError
                       /\ ~webhookLogs[k].processed
  /\ \E k \in LogIds : /\ webhookLogs[k].processingError \in ValidationErrors
                       /\ ~webhookLogs[k].processed
  /\ payments = {} /\ allocations = {}
  /\ \A e \in ledger : e.paymentId = 0

DaysStamped == {x.transactionDate : x \in payments}

\* C17: for each customer the COMPLETED Payments stamped with one calendar day sum
\* to at most the daily ceiling, and no COMPLETED Payment is above the
\* single-transaction ceiling, also when settlements of one customer run
\* concurrently.
C17_CeilingsHold ==
  /\ \A x \in Completed : x.amount <= MaxTransactionAmount
  /\ \A c \in Customers, d \in DaysStamped :
       SumAmount({x \in Completed : x.customerId = c /\ x.transactionDate = d})
         <= DailyLimit

\* The step in which postTransaction is called directly.
PostTransactionCalled ==
  proc[1].pc = "idle" /\ proc'[1].op = "postTransaction"

\* C18: postTransaction with entries whose debit total and credit total differ by
\* more than the tolerance fails and writes no ledger row: the ledger is unchanged.
C18_UnbalancedPostingRejected ==
  [][(/\ PostTransactionCalled
      /\ Abs(TotalOf(proc'[1].entries, "DEBIT")
             - TotalOf(proc'[1].entries, "CREDIT")) > Eps)
     => /\ proc'[1].pc = "postThrown"
        /\ proc'[1].error = "Transaction out of balance"
        /\ ledger' = ledger]_vars

\* After a posting that went through, a call with a debit of 5 against a credit of
\* 3 has thrown.
C18_Witness ==
  /\ proc[1].pc = "postThrown"
  /\ TotalOf(proc[1].entries, "DEBIT") = 5
  /\ TotalOf(proc[1].entries, "CREDIT") = 3
  /\ Cardinality(PostedRefs) = 1

\* C19: postTransaction called with an empty list of entries fails and writes
\* nothing.
C19_EmptyPostingRejected ==
  [][(PostTransactionCalled /\ proc'[1].entries = <<>>)
     => /\ proc'[1].pc = "postThrown"
        /\ ledger' = ledger]_vars

\* What a set of ledger rows adds to the debit side of an account, credits
\* counted negative.
NetDebit(rows, accountCode) ==
  RowTotal({e \in rows : e.accountCode = accountCode}, "DEBIT")
  - RowTotal({e \in rows : e.accountCode = accountCode}, "CREDIT")

\* C20: reverseTransaction fails with a not-found error and writes nothing when
\* no ledger row carries the original reference.  Otherwise it appends, under one
\* new reference, exactly one row per original row, with the same account and
\* amount and the opposite side, so that on every account the original and the
\* reversal together come to zero.
C20_ReversalMirrorsOriginal ==
  [][(proc[1].pc = "idle" /\ proc'[1].op = "reverseTransaction")
     => LET original == {e \in ledger :
                           e.transactionRef = proc'[1].originalTransactionRef}
            appended == ledger' \ ledger
        IN IF original = {}
           THEN /\ proc'[1].pc = "reverseThrown"
                /\ proc'[1].error = "Transaction not found"
                /\ ledger' = ledger
           ELSE /\ proc'[1].pc = "reversed"
                /\ ledger \subseteq ledger'
                /\ Cardinality({e.transactionRef : e \in appended}) = 1
                /\ \A e \in appended, x \in ledger : e.transactionRef # x.transactionRef
                /\ Cardinality(appended) = Cardinality(original)
                /\ \A x \in original :
                     Cardinality({e \in appended :
                                    /\ e.line = x.line
                                    /\ e.accountCode = x.accountCode
                                    /\ e.amount = x.amount
                                    /\ e.entryType # x.entryType}) = 1
                /\ \A code \in {x.accountCode : x \in original} :
                     NetDebit(original, code) + NetDebit(appended, code) = 0]_vars

\* The two rows posted by a settlement have been reversed by two new rows.
C20_Witness ==
  /\ proc[1].pc = "reversed"
  /\ proc[1].originalTransactionRef[1] = "PAY"
  /\ Cardinality(ReversalRefs) = 1
  /\ Cardinality(ledger) = 4

\* C25: for every invoice, amount never changes after creation and amountPaid
\* never decreases from one state to the next, also when several settlements touch
\* the same invoice concurrently.
C25_AmountPaidNeverDecreases ==
  [][\A i \in DOMAIN invoices :
       /\ invoices'[i].amount = invoices[i].amount
       /\ invoices'[i].amountPaid >= invoices[i].amountPaid]_vars

\* The ledger rows posted by the settlement that created payment x.
PaymentPosting(x) ==
  {e \in ledger : e.paymentId = x.id /\ e.transactionRef[1] = "PAY"}

\* The oldest invoice payment x was allocated to, 0 when it was allocated to none.
FirstAllocatedInvoice(x) ==
  LET ids == {a.invoiceId : a \in {b \in allocations : b.paymentId = x.id}}
  IN IF ids = {} THEN 0 ELSE CHOOSE i \in ids : \A j \in ids : i <= j

\* C29: every settlement that took effect has posted exactly one ledger
\* transaction of two rows, a DEBIT to Cash (1010) and a CREDIT to Accounts
\* Receivable (1200), both of the full payment amount whatever was allocated,
\* tagged with the payment, the customer and the oldest allocated invoice (none
\* when nothing was allocated).
C29_SettlementPostsCashAgainstReceivable ==
  \A x \in Completed :
    LET rows == PaymentPosting(x)
        tag == [paymentId |-> x.id, invoiceId |-> FirstAllocatedInvoice(x),
                customerId |-> x.customerId]
    IN /\ Cardinality({e.transactionRef : e \in rows}) = 1
       /\ Cardinality(rows) = 2
       /\ \E d \in rows, c \in rows :
            /\ d.entryType = "DEBIT" /\ d.accountCode = "1010" /\ d.amount = x.amount
            /\ c.entryType = "CREDIT" /\ c.accountCode = "1200" /\ c.amount = x.amount
       /\ \A e \in rows :
            [paymentId |-> e.paymentId, invoiceId |-> e.invoiceId,
             customerId |-> e.customerId] = tag

\* A payment of 5 on a customer account without any invoice is COMPLETED, and a
\* payment of 5 that found a single invoice of 4 is COMPLETED with 4 allocated:
\* each has its posting of 5.
C29_Witness ==
  \E x \in Completed, y \in Completed :
    /\ x.amount = 5 /\ x.paymentType = "ACCOUNT"
    /\ \A a \in allocations : a.paymentId # x.id
    /\ \A e \in PaymentPosting(x) : e.invoiceId = 0 /\ e.amount = 5
    /\ y.amount = 5
    /\ \E a \in allocations : a.paymentId = y.id /\ a.amountApplied = 4
    /\ \A e \in PaymentPosting(y) : e.invoiceId # 0 /\ e.amount = 5
    /\ PaymentPosting(x) # {} /\ PaymentPosting(y) # {}

\* The ledger rows of the posting createInvoice made for invoice id.
InvoicePosting(led, id) ==
  {e \in led : e.invoiceId = id /\ e.transactionRef[1] = "INV"}

\* C30: createInvoice is all-or-nothing (calls one after the other).  When it
\* ends with success there is a new invoice row with status UNPAID, amountPaid 0
\* and balance = amount, the customer's balance has grown by amount, and the
\* ledger holds one posting for the invoice: DEBIT Accounts Receivable, CREDIT
\* Sales Revenue, both of amount.  When it ends with a failure, no invoice row, no
\* change of the customer's balance and no ledger row of the call persists.
C30_CreateInvoiceAllOrNothing ==
  [][(proc[1].op = "createInvoice" /\ proc[1].pc \in CiTxPcs /\ proc'[1].pc = "idle")
     => LET id == proc[1].newInvoice
            c == proc[1].customerId
            posted == InvoicePosting(ledger', id)
        IN IF id \in DOMAIN invoices'
           THEN /\ invoices'[id].status = "UNPAID"
                /\ invoices'[id].amountPaid = 0
                /\ invoices'[id].balance = proc[1].amount
                /\ invoices'[id].amount = proc[1].amount
                /\ customers'[c] = customers[c] + proc[1].amount
                /\ Cardinality(posted) = 2
                /\ \E d \in posted, k \in posted :
                     /\ d.entryType = "DEBIT" /\ d.accountCode = "1200"
                     /\ k.entryType = "CREDIT" /\ k.accountCode = "4000"
                     /\ d.amount = proc[1].amount /\ k.amount = proc[1].amount
           ELSE /\ invoices' = invoices
                /\ customers' = customers
                /\ posted = {}]_vars

\* C21: reversing the same transaction twice fails the second time: after one
\* successful reverseTransaction of a reference, a second reverseTransaction of
\* the same reference throws the not-found error and adds no ledger row.
C21_SecondReversalFails ==
  [][(proc[1].pc = "reversed" /\ proc'[1].op = "reverseTransaction")
     => /\ proc'[1].pc = "reverseThrown"
        /\ proc'[1].error = "Transaction not found"
        /\ ledger' = ledger]_vars

\* The step in which slot p takes a cancelInvoice call.
CancelInvoiceCalled(p) == proc[p].pc = "idle" /\ proc'[p].op = "cancelInvoice"

\* C24: an invoice can be cancelled only while its amountPaid is 0.  A
\* cancelInvoice call for an invoice that is PAID or has amountPaid > 0 throws and
\* writes nothing, and no state, also with cancelInvoice and settlements
\* interleaved, has an invoice with status CANCELLED and amountPaid > 0.
C24_CancelOnlyWhileUnpaid ==
  [][/\ \A p \in Procs :
          LET id == proc'[p].targetInvoiceId IN
          (/\ CancelInvoiceCalled(p)
           /\ id \in DOMAIN invoices
           /\ (invoices[id].status = "PAID" \/ invoices[id].amountPaid > 0))
          => /\ proc'[p].pc = "cancelThrown"
             /\ UNCHANGED db
     /\ \A i \in DOMAIN invoices' :
          ~(invoices'[i].status = "CANCELLED" /\ invoices'[i].amountPaid > 0)]_vars

\* What customer c owes on invoices that are not cancelled, and the part of the
\* customer's payments that no allocation row accounts for.
OutstandingOf(c) ==
  SumAmount({[id |-> i, amount |-> invoices[i].balance] :
               i \in {k \in DOMAIN invoices : /\ invoices[k].customerId = c
                                              /\ invoices[k].status # "CANCELLED"}})

UnallocatedCreditOf(c) ==
  SumAmount({x \in payments : x.customerId = c})
  - SumApplied({a \in allocations :
                  \E x \in payments : x.customerId = c /\ x.id = a.paymentId})

\* C23: in every reachable state, for every customer, Customer.balance equals the
\* sum of the balances of the customer's non-cancelled invoices minus the
\* unallocated part of the customer's payments, after any sequence of invoice
\* creations, settlements and invoice cancellations (one after the other).
C23_CustomerBalanceMatchesInvoices ==
  \A c \in Customers : customers[c] = OutstandingOf(c) - UnallocatedCreditOf(c)

\* C22: the ledger is append-only: every step of every operation (posting,
\* reversal, settlement, invoice creation, invoice cancellation, integrity
\* verification, balance query) leaves every ledger row that existed in place and
\* unmodified; the set of rows only grows.
C22_LedgerAppendOnly == [][ledger \subseteq ledger']_vars

\* The ledger holds an invoice posting, the reversal a cancellation posted and a
\* posting made directly, and a read-only call has just returned its answer.
C22_Witness ==
  /\ \E ref \in TransactionRefs : ref[1] = "INV"
  /\ \E ref \in TransactionRefs : ref[1] = "REV"
  /\ \E ref \in TransactionRefs : ref[1] = "TXN"
  /\ \E i \in DOMAIN invoices : invoices[i].status = "CANCELLED"
  /\ \E p \in Procs : proc[p].pc = "queried" /\ proc[p].op = "verifyLedgerIntegrity"

\* C26: every invocation of the webhook handler ends with the acknowledgment
\* (HTTP 200, ResultCode 0), whatever happened inside: success, duplicate, a
\* payload that does not parse, a failed resolution or validation, a storage
\* failure in the settlement or in a read, create or update of the webhook log.
\* The step that ends an invocation appends exactly one response, and it is the
\* acknowledgment; no invocation ends in any other way.
C26_AlwaysAcknowledged ==
  [][\A p \in Procs :
       (proc[p].op = "webhook" /\ Release(p))
       => /\ Len(responses') = Len(responses) + 1
          /\ SubSeq(responses', 1, Len(responses)) = responses
          /\ responses'[Len(responses')].status = 200
          /\ responses'[Len(responses')].ResultCode = 0]_vars

\* Two invocations have ended: one left no log row at all, the other a log row
\* written by the outer catch after a storage failure on the webhook log.
C26_Witness ==
  /\ Quiescent
  /\ Len(responses) = 2
  /\ Len(webhookLogs) = 1
  /\ webhookLogs[1].processingError = "Validation error: Storage failure"

\* C27: every inbound notification, a malformed one included, produces exactly
\* one webhook log row: once every invocation has ended there are as many log rows
\* as there were notifications.
C27_OneLogPerNotification ==
  Quiescent => Len(webhookLogs) = Len(responses)

\* The pcs at which a callback is inside processPayment.
ProcessPaymentPcs == {"findPayment", "identify", "validate"} \cup TxPcs

\* Slot p's call of processPayment ends in this step, by return or by throw.
ProcessPaymentEnds(p) ==
  /\ proc[p].op = "webhook"
  /\ proc[p].pc \in ProcessPaymentPcs
  /\ proc'[p].pc \in {"logSuccess", "logError"}
  /\ proc'[p].logId = proc[p].logId

\* C28: a payment notification whose account reference is the POS ID of a PENDING
\* POS sale is settled: when its processing ends, it has succeeded, the sale is PAID
\* and the sale is linked to an invoice created for it.
C28_PosPaymentSettlesSale ==
  [][\A p \in Procs : \A k \in 1..Len(posSales) :
       (/\ ProcessPaymentEnds(p)
        /\ proc[p].accountReference = posSales[k].posId
        /\ posSales[k].status = "PENDING")
       => /\ proc'[p].pc = "logSuccess"
          /\ posSales'[k].status = "PAID"
          /\ posSales'[k].invoiceId \in DOMAIN invoices'
          /\ invoices'[posSales'[k].invoiceId].posId = posSales'[k].id]_vars

\* The account types of the rows of an account.
TypesOf(accountCode) == {e.accountType : e \in {x \in ledger : x.accountCode = accountCode}}

\* Debits minus credits of an account over the rows dated on or before asOf (all
\* rows when asOf is absent).
NetDebitAsOf(accountCode, asOf) ==
  NetDebit({e \in ledger : asOf = NoDate \/ e.transactionDate <= asOf}, accountCode)

BeyondTolerance(led) ==
  {ref \in {e.transactionRef : e \in led} :
     LET group == {e \in led : e.transactionRef = ref}
     IN \/ RowTotal(group, "DEBIT") - RowTotal(group, "CREDIT") > Eps
        \/ RowTotal(group, "CREDIT") - RowTotal(group, "DEBIT") > Eps}

\* C32: verifyLedgerIntegrity changes no state, reports a transaction reference
\* exactly when the debit and credit totals under it differ by more than 0.01, and
\* answers isValid exactly when it reports none.
C32_VerifyLedgerIntegrity ==
  [][\A p \in Procs :
       (/\ proc[p].pc = "idle"
        /\ proc'[p].pc = "queried"
        /\ proc'[p].op = "verifyLedgerIntegrity")
       => /\ db' = db
          /\ proc'[p].errors = BeyondTolerance(ledger)
          /\ proc'[p].isValid = (BeyondTolerance(ledger) = {})]_vars

\* A call has reported one reference and not the other, whose totals are one cent
\* apart.
C32_Witness ==
  \E p \in Procs :
    /\ proc[p].pc = "queried" /\ proc[p].op = "verifyLedgerIntegrity"
    /\ proc[p].errors = {GenerateTransactionRef("TXN", 1)}
    /\ ~proc[p].isValid
    /\ LET group == {e \in ledger : e.transactionRef = GenerateTransactionRef("TXN", 2)}
       IN RowTotal(group, "DEBIT") - RowTotal(group, "CREDIT") = 1

\* Slot p's settlement commits in this step.
SettlementCommits(p) ==
  /\ proc[p].op = "webhook"
  /\ proc[p].pc = "txCommit"
  /\ proc'[p].pc = "logSuccess"
  /\ proc'[p].logId = proc[p].logId

\* Sale k and invoice i are linked: the invoice carries the sale's id as posId, or
\* the sale carries the invoice's id.
SaleLinked(k, i) == invoices[i].posId = posSales[k].id \/ posSales[k].invoiceId = i

\* The invoices a committing step brings to PAID.
BroughtToPaid ==
  {i \in DOMAIN invoices : invoices[i].status # "PAID" /\ invoices'[i].status = "PAID"}

\* C33: after a successful settlement, every PENDING sale linked to an invoice that
\* the settlement brought to PAID is PAID, and every other sale (linked to invoices
\* that stay PARTIALLY_PAID, or not PENDING) is as it was.
C33_PaidInvoiceCompletesSale ==
  [][\A p \in Procs :
       SettlementCommits(p)
       => \A k \in 1..Len(posSales) :
            IF /\ posSales[k].status = "PENDING"
               /\ \E i \in BroughtToPaid : SaleLinked(k, i)
            THEN posSales'[k].status = "PAID"
            ELSE posSales'[k] = posSales[k]]_vars

\* C34: no Payment is visible in committed state with status PENDING or FAILED: the
\* PENDING row exists only inside the settlement's transaction, and every persisted
\* Payment is COMPLETED.
C34_PersistedPaymentsCompleted == \A x \in payments : x.status = "COMPLETED"

\* One settlement has committed its payment, another was rolled back with its
\* PENDING row, and a third is inside its transaction holding a PENDING row.
C34_Witness ==
  /\ payments # {}
  /\ \E k \in LogIds : webhookLogs[k].processingError = "Storage failure"
  /\ \E p \in Procs : proc[p].pc \in TxPcs /\ proc[p].payment.status = "PENDING"

\* The log rows of a receipt that are marked processed.
ProcessedLogs(receipt) ==
  {k \in LogIds : webhookLogs[k].mpesaReceiptNumber = receipt /\ webhookLogs[k].processed}

\* C35: for every receipt at most one log row is ever marked processed, under any
\* interleaving of the deliveries of that receipt, and a delivery that did not
\* itself create the Payment never has its row marked processed with the Payment's
\* id (the Payment created by the delivery of row k carries the id k).
C35_OneProcessedLogPerReceipt ==
  /\ \A k \in LogIds : Cardinality(ProcessedLogs(webhookLogs[k].mpesaReceiptNumber)) <= 1
  /\ \A k \in LogIds : webhookLogs[k].processed => webhookLogs[k].paymentId = k

\* C36: after any sequence of createInvoice, successful settlement and cancelInvoice
\* operations executed one at a time, each customer's stored balance equals the
\* Accounts Receivable balance the ledger gives for the customer.
C36_BalanceMatchesReceivable ==
  Quiescent => \A c \in Customers : customers[c] = GetCustomerBalance(ledger, c)

\* Account, side and amount of ledger rows, with the side flipped or kept.
Postings(rows, flipped) ==
  {[accountCode |-> e.accountCode,
    entryType |-> IF flipped THEN Flip(e.entryType) ELSE e.entryType,
    amount |-> e.amount] : e \in rows}

\* C37: cancelling an invoice takes effect at most once.  A cancelInvoice call on an
\* invoice that is already CANCELLED changes neither the customer's balance nor the
\* ledger, and the rows a cancellation posts are the mirror of the rows of the
\* invoice's issuance transaction.
C37_CancelTakesEffectOnce ==
  [][\A p \in Procs :
       proc[p].op = "cancelInvoice"
       => LET id == proc[p].targetInvoiceId IN
          /\ (id \in DOMAIN invoices /\ invoices[id].status = "CANCELLED")
             => (customers' = customers /\ ledger' = ledger)
          /\ ledger' # ledger
             => Postings(ledger' \ ledger, FALSE) =
                Postings({e \in ledger :
                            e.transactionRef = GenerateTransactionRef("INV", id)}, TRUE)]_vars

\* C38: one operation at a time, the status of every invoice that is not CANCELLED
\* is determined by its amounts: UNPAID exactly when amountPaid = 0, PAID exactly
\* when balance <= 0.01, PARTIALLY_PAID exactly when amountPaid > 0 and
\* balance > 0.01; and every allocation record has a strictly positive amount.
C38_StatusDeterminedByAmounts ==
  /\ \A i \in DOMAIN invoices :
       invoices[i].status # "CANCELLED"
       => /\ invoices[i].status = "UNPAID" <=> invoices[i].amountPaid = 0
          /\ invoices[i].status = "PAID" <=> invoices[i].balance <= Eps
          /\ invoices[i].status = "PARTIALLY_PAID"
             <=> (invoices[i].amountPaid > 0 /\ invoices[i].balance > Eps)
  /\ \A a \in allocations : a.amountApplied > 0

\* The settlement in slot p has resolved its reference to an invoice that is PAID or
\* CANCELLED.
TargetsClosedInvoice(p) ==
  /\ proc[p].op = "webhook"
  /\ proc[p].targetInvoiceId \in DOMAIN invoices
  /\ invoices[proc[p].targetInvoiceId].status \in {"PAID", "CANCELLED"}

\* C39: a settlement whose account reference resolves to an invoice that is already
\* PAID or CANCELLED still succeeds: it creates a COMPLETED Payment without any
\* allocation record, changes no invoice, lowers the owning customer's balance by
\* the full amount and posts the Cash / Accounts Receivable pair of the full amount.
C39_ClosedInvoiceStillSettles ==
  [][\A p \in Procs :
       /\ (ProcessPaymentEnds(p) /\ TargetsClosedInvoice(p))
          => (proc[p].pc = "txCommit" /\ proc'[p].pc = "logSuccess")
       /\ (SettlementCommits(p) /\ TargetsClosedInvoice(p))
          => LET c == invoices[proc[p].targetInvoiceId].customerId
                 x == proc[p].payment
             IN /\ payments' = payments \cup {x}
                /\ x \notin payments
                /\ x.status = "COMPLETED" /\ x.amount = proc[p].amount
                /\ x.customerId = c
                /\ allocations' = allocations
                /\ invoices' = invoices
                /\ customers'[c] = customers[c] - proc[p].amount
                /\ Postings(PaymentPosting(x), FALSE) =
                     {[accountCode |-> "1010", entryType |-> "DEBIT",
                       amount |-> proc[p].amount],
                      [accountCode |-> "1200", entryType |-> "CREDIT",
                       amount |-> proc[p].amount]}
                /\ Cardinality(PaymentPosting(x)) = 2]_vars

\* An invoice of 4 was cancelled and a payment of 5 with the invoice as reference
\* is COMPLETED without allocation record, posted with 5, and the customer's
\* balance is -5.
C39_Witness ==
  /\ Quiescent
  /\ \E x \in Completed, i \in DOMAIN invoices :
       /\ invoices[i].status = "CANCELLED"
       /\ x.paymentType = "INVOICE" /\ x.amount = 5
       /\ \A a \in allocations : a.paymentId # x.id
       /\ \A e \in PaymentPosting(x) : e.amount = 5
       /\ PaymentPosting(x) # {}
       /\ customers[invoices[i].customerId] = 0 - 5

\* What the successful operations on customer c add up to: the amounts of the
\* invoices created, minus those of the invoices cancelled, minus the payments
\* completed.
NetOfOperations(c) ==
  SumAmount({[id |-> i, amount |-> invoices[i].amount] :
               i \in {j \in DOMAIN invoices : invoices[j].customerId = c}})
  - SumAmount({[id |-> i, amount |-> invoices[i].amount] :
                 i \in {j \in DOMAIN invoices : /\ invoices[j].customerId = c
                                                /\ invoices[j].status = "CANCELLED"}})
  - SumAmount({x \in Completed : x.customerId = c})

\* C40: when a createInvoice (or cancelInvoice) and a settlement for the same
\* customer run concurrently and both succeed, the customer's final balance is the
\* initial balance plus the invoice amount (minus it for a cancellation) minus the
\* payment amount, in every interleaving: no balance change is overwritten.
C40_NoLostBalanceUpdate ==
  Quiescent => \A c \in Customers : customers[c] = NetOfOperations(c)

====
